---- MODULE Spec2Model ----
(***************************************************************************)
(* State-machine model of the parcel dispatch core:                        *)
(*   - the pickup dispatcher   (main_service.py)                           *)
(*   - the delivery dispatcher (delivery_service.py)                       *)
(*   - the TSP solver adapter  (lkh_app.py, run_lkh_internal.py)           *)
(*   - the traffic proxy       (traffic_proxy.py)                          *)
(* Each HTTP handler is one action; the relational store is the variable   *)
(* parcel, the wall clock is the variable now.                             *)
(***************************************************************************)
EXTENDS Integers, Sequences, FiniteSets, TLC

VARIABLES
    parcel,             \* the Parcel table: parcel id -> row
    now,                \* wall clock (KST): [day, hour]
    driver_hub_status,  \* main_service.driver_hub_status: pickup driver -> BOOLEAN
    delivery_hub_status,\* delivery_service.driver_hub_status: driver -> BOOLEAN
    resp,               \* the response of the last dispatcher request
    lkh_req,            \* the /solve request being served, with what the solver binary does
    lkh_resp,           \* the /solve response
    traffic_data,       \* traffic_proxy.traffic_data (the global speed table)
    new_traffic_data,   \* fetch_traffic_data's local table under construction
    updater,            \* the background worker: [pc, i, cycle]
    route_req,          \* the /route request in flight: [pc, m, reads, times]
    auth_header,        \* the Authorization header of the dispatcher request being served
    last_call,          \* the last call of the proxy's stateless endpoints or of their
                        \* clients, with its inputs and its result
    inflight            \* the delivery dispatcher's requests being served at the same
                        \* time: request id -> [op, pc, the handler's locals]

vars == <<parcel, now, driver_hub_status, delivery_hub_status, resp, lkh_req, lkh_resp,
          traffic_data, new_traffic_data, updater, route_req, auth_header, last_call,
          inflight>>

dispatchVars == <<parcel, now, driver_hub_status, delivery_hub_status, resp>>
lkhVars == <<lkh_req, lkh_resp>>
trafficVars == <<traffic_data, new_traffic_data, updater, route_req>>
authVars == <<auth_header>>
proxyVars == <<last_call>>
flightVars == <<inflight>>

\* What a step of one service leaves alone in the others.
nonDispatchVars == <<lkhVars, trafficVars, authVars, proxyVars, flightVars>>
nonLkhVars == <<dispatchVars, trafficVars, authVars, proxyVars, flightVars>>
nonTrafficVars == <<dispatchVars, lkhVars, authVars, proxyVars, flightVars>>

----------------------------------------------------------------------------
(* Bounds of the model *)

NumParcels == 2
MaxDay == 1

(* Program constants *)

PICKUP_START_TIME == 7
PICKUP_CUTOFF_TIME == 12
DELIVERY_START_TIME == 15

\* SQL NULL / Python None for a driver id column
NoDriver == 0
\* no parcel named in a response
NoParcel == 0

Parcels == 1..NumParcels
Days == 0..MaxDay

\* The hours the model's clock visits: before pickup start, exactly at pickup
\* start, exactly at the cutoff, and exactly at delivery start.
ClockHours == {PICKUP_START_TIME - 1, PICKUP_START_TIME,
               PICKUP_CUTOFF_TIME, DELIVERY_START_TIME}

PICKUP_DRIVERS == 1..5
DELIVERY_DRIVERS == 6..10

\* Authenticated callers the model sends requests as (user ids of verified tokens).
Callers == {1, 5, 10}

Statuses == <<"PICKUP_PENDING", "PICKUP_COMPLETED", "DELIVERY_PENDING", "DELIVERY_COMPLETED">>

\* Recipient addresses: what the geocoder's region_2depth_name is for the
\* address when the API answers (api), and the first whitespace token ending
\* in the district suffix (text); "" when there is none.
Addresses == {
    [api |-> "gangnam_gu",  text |-> ""],
    [api |-> "haeundae_gu", text |-> "haeundae_gu"] }

\* a pickup table whose entries are the delivery table's driver ids
PickupDriverOfDeliveryTable(district) ==
    CASE district = "gangnam_gu" -> 10
      [] OTHER -> NoDriver

\* main_service.DISTRICT_DRIVER_MAPPING restricted to the model's districts
\* (NoDriver: dict.get returns None).
PickupDriverOf(district) ==
    CASE district = "gangnam_gu" -> 5
      [] OTHER -> NoDriver

\* delivery_service.DISTRICT_DRIVER_MAPPING restricted to the model's districts.
DeliveryDriverOf(district) ==
    CASE district = "gangnam_gu" -> 10
      [] OTHER -> NoDriver

\* extract_district_from_kakao_geocoding: the API's district when the API
\* answers with one, else the textual suffix token, else "" (None).
ExtractDistrict(addr, apiUp) ==
    IF apiUp /\ addr.api # "" THEN addr.api
    ELSE addr.text

----------------------------------------------------------------------------
(* Store helpers *)

\* CURDATE() in the store and datetime.now(KST).date() in the services: the
\* store's session is taken to run in the services' time zone.
Today == now.day

IsToday(ts) == ts # <<>> /\ ts[1] = Today

RECURSIVE OrderDesc(_)
\* ORDER BY createdAt DESC: parcels are created in id order.
OrderDesc(S) ==
    IF S = {} THEN <<>>
    ELSE LET m == CHOOSE x \in S : \A y \in S : y <= x
         IN <<m>> \o OrderDesc(S \ {m})

\* get_parcel_from_db: the row, when it exists and is not soft-deleted.
ParcelFound(p) == ~parcel[p].isDeleted

\* get_driver_parcels_from_db without the pickupScheduledDate condition.
DriverParcelsAnyDate(d) ==
    {p \in Parcels : parcel[p].pickupDriverId = d /\ ~parcel[p].isDeleted}

\* get_driver_parcels_from_db: the driver's rows due today or earlier.
DriverParcels(d) ==
    {p \in Parcels : /\ parcel[p].pickupDriverId = d
                     /\ ~parcel[p].isDeleted
                     /\ \/ parcel[p].pickupScheduledDate = <<>>
                        \/ parcel[p].pickupScheduledDate[1] <= Today}

\* pending_pickups = [p for p in parcels if p['status'] == 'PENDING']
PendingPickups(d) ==
    OrderDesc({p \in DriverParcels(d) : parcel[p].status = "PICKUP_PENDING"})

\* a query for the pending deliveries of every driver
PendingDeliveriesAnyDriver(d) ==
    OrderDesc({p \in Parcels : parcel[p].status = "DELIVERY_PENDING" /\ ~parcel[p].isDeleted})

\* get_real_pending_deliveries
PendingDeliveries(d) ==
    OrderDesc({p \in Parcels : /\ parcel[p].deliveryDriverId = d
                               /\ parcel[p].status = "DELIVERY_PENDING"
                               /\ ~parcel[p].isDeleted})

\* A response, with what the request did on the way: tsp, what the matrix
\* and TSP steps came to ("none": not attempted); calls, the services it
\* called ("matrix", "tsp", "route", "import", "assign"); failed, the rows
\* for which it logged a store error (logging.error "DB ..."); warned, the
\* rows for which it logged that no district could be extracted.
Response(op, d, p, code, status, next, remaining) ==
    [op |-> op, driver |-> d, parcel |-> p, code |-> code, status |-> status,
     next |-> next, remaining |-> remaining, tsp |-> "none", calls |-> {},
     failed |-> {}, warned |-> {}]

Via(r, tsp, calls) == [r EXCEPT !.tsp = tsp, !.calls = calls]

Logged(r, failed, warned) == [r EXCEPT !.failed = failed, !.warned = warned]

\* What a SELECT returns: get_driver_parcels_from_db and
\* get_real_pending_deliveries answer [] when the query raises.
QueryResult(rows, dbUp) == IF dbUp THEN rows ELSE <<>>

----------------------------------------------------------------------------
(* The clock *)

Tick ==
    /\ \E h \in ClockHours, d \in Days :
          /\ \/ d = now.day /\ h > now.hour
             \/ d = now.day + 1
          /\ now' = [day |-> d, hour |-> h]
    /\ UNCHANGED <<parcel, driver_hub_status, delivery_hub_status, resp>>

----------------------------------------------------------------------------
(* Pickup dispatcher: store updates *)

\* assign_driver_to_parcel_in_db: UPDATE ... WHERE id = %s AND isDeleted = 0
AssignToday(p, d) ==
    [parcel EXCEPT ![p].pickupDriverId = d,
                   ![p].status = "PICKUP_PENDING",
                   ![p].isNextPickupTarget = TRUE,
                   ![p].pickupScheduledDate = <<Today>>]

\* the UPDATE of assign_driver_to_parcel_for_tomorrow
AssignTomorrow(p, d, tomorrow) ==
    [parcel EXCEPT ![p].pickupDriverId = d,
                   ![p].status = "PICKUP_PENDING",
                   ![p].pickupScheduledDate = <<tomorrow>>,
                   ![p].isNextPickupTarget = FALSE]

\* complete_parcel_in_db: UPDATE ... WHERE id = %s AND isDeleted = 0
\* (the statement carries no condition on status). The DATETIME columns
\* pickupCompletedAt and deliveryCompletedAt are kept by their date, the only
\* part any query reads (DATE(pickupCompletedAt) = CURDATE()).
CompleteParcelGuard(p) == ~parcel[p].isDeleted

CompleteParcel(p) ==
    [parcel EXCEPT ![p].status = "PICKUP_COMPLETED",
                   ![p].isNextPickupTarget = FALSE,
                   ![p].pickupCompletedAt = <<Today>>]

\* a cutoff test that excludes the cutoff instant itself
AfterCutoffExclusive(hour) == hour > PICKUP_CUTOFF_TIME

\* current_time >= PICKUP_CUTOFF_TIME in webhook_new_pickup
AfterCutoff(hour) == hour >= PICKUP_CUTOFF_TIME

\* webhook_new_pickup, at or after the cutoff: no look at the current driver.
WebhookAfterCutoff(p, apiUp) ==
    LET tomorrow == Today + 1
        district == ExtractDistrict(parcel[p].recipientAddr, apiUp)
        d        == PickupDriverOf(district)
    IN  IF ParcelFound(p) /\ district # "" /\ d # NoDriver
        THEN /\ parcel' = AssignTomorrow(p, d, tomorrow)
             /\ resp' = Response("webhook", d, p, 200, "scheduled_tomorrow", NoParcel, 0)
        ELSE /\ parcel' = parcel
             /\ resp' = Logged(Response("webhook", NoDriver, p, 500, "error", NoParcel, 0),
                               {}, IF ParcelFound(p) /\ district = "" THEN {p} ELSE {})

\* webhook_new_pickup, before the cutoff.
WebhookBeforeCutoff(p, apiUp) ==
    LET district == ExtractDistrict(parcel[p].recipientAddr, apiUp)
        d        == PickupDriverOf(district)
    IN  IF ~ParcelFound(p)
        THEN /\ parcel' = parcel
             /\ resp' = Response("webhook", NoDriver, p, 404, "error", NoParcel, 0)
        ELSE IF parcel[p].pickupDriverId # NoDriver
        THEN /\ parcel' = parcel
             /\ resp' = Response("webhook", NoDriver, p, 200, "already_processed", NoParcel, 0)
        ELSE IF district = ""
        THEN /\ parcel' = parcel
             /\ resp' = Logged(Response("webhook", NoDriver, p, 400, "error", NoParcel, 0),
                               {}, {p})
        ELSE IF d = NoDriver
        THEN /\ parcel' = parcel
             /\ resp' = Response("webhook", NoDriver, p, 500, "error", NoParcel, 0)
        ELSE /\ parcel' = AssignToday(p, d)
             /\ resp' = Response("webhook", d, p, 200, "success", NoParcel, 0)

\* POST /api/pickup/webhook
Webhook ==
    /\ \E p \in Parcels, apiUp \in BOOLEAN :
          IF AfterCutoff(now.hour)
          THEN WebhookAfterCutoff(p, apiUp)
          ELSE WebhookBeforeCutoff(p, apiUp)
    /\ UNCHANGED <<now, driver_hub_status, delivery_hub_status>>

\* an ownership test that only looks for the row
PickupForbiddenLax(p, d) == ~ParcelFound(p)

\* complete_pickup: not parcel or parcel['pickupDriverId'] != driver_id
PickupForbidden(p, d) == ~ParcelFound(p) \/ parcel[p].pickupDriverId # d

\* POST /api/pickup/complete
PickupComplete ==
    /\ \E d \in Callers, p \in Parcels :
          IF PickupForbidden(p, d)
          THEN /\ parcel' = parcel
               /\ resp' = Response("pickup_complete", d, p, 403, "error", NoParcel, 0)
          ELSE IF CompleteParcelGuard(p)
          THEN /\ parcel' = CompleteParcel(p)
               /\ resp' = Response("pickup_complete", d, p, 200, "success", NoParcel, 0)
          ELSE /\ parcel' = parcel
               /\ resp' = Response("pickup_complete", d, p, 500, "error", NoParcel, 0)
    /\ UNCHANGED <<now, driver_hub_status, delivery_hub_status>>

\* POST /api/pickup/hub-arrived
HubArrived ==
    /\ \E d \in Callers, dbUp \in BOOLEAN :
          IF d \notin PICKUP_DRIVERS
          THEN /\ driver_hub_status' = driver_hub_status
               /\ resp' = Response("hub_arrived", d, NoParcel, 403, "error", NoParcel, 0)
          ELSE IF QueryResult(PendingPickups(d), dbUp) # <<>>
          THEN /\ driver_hub_status' = driver_hub_status
               /\ resp' = Response("hub_arrived", d, NoParcel, 400, "error", NoParcel,
                                   Len(PendingPickups(d)))
          ELSE /\ driver_hub_status' = [driver_hub_status EXCEPT ![d] = TRUE]
               /\ resp' = Response("hub_arrived", d, NoParcel, 200, "success", NoParcel, 0)
    /\ UNCHANGED <<parcel, now, delivery_hub_status>>

----------------------------------------------------------------------------
(* Pickup dispatcher: the online router *)

\* What the TSP adapter may answer with: any node list, valid or not.
TourNodes == 0..(NumParcels + 1)
Tours == UNION {[1..k -> TourNodes] : k \in 0..(NumParcels + 1)}

Range(f) == {f[i] : i \in DOMAIN f}

\* optimal_tour.index(0), 1-based
IndexOfZero(tour) ==
    CHOOSE i \in 1..Len(tour) : tour[i] = 0 /\ \A j \in 1..(i - 1) : tour[j] # 0

\* get_next_destination's choice among n pending stops from the tour:
\* k >= 1, the k-th pending stop; 0, none chosen (falls to the first-stop
\* fallback); -1, list.index raises ValueError.
PickupTourChoice(tour, n) ==
    IF Len(tour) <= 1 THEN 0
    ELSE IF 0 \notin Range(tour) THEN -1
    ELSE LET len == Len(tour)
             i   == IndexOfZero(tour)
             n1  == tour[(i % len) + 1]
             n2  == IF n1 = 0 THEN tour[((i + 1) % len) + 1] ELSE n1
             pickup_idx == n2 - 1
         IN  IF 0 <= pickup_idx /\ pickup_idx < n THEN pickup_idx + 1 ELSE 0

\* a gate that still holds the driver back at the start time itself
BeforePickupStartInclusive(hour) == hour <= PICKUP_START_TIME

\* current_time < PICKUP_START_TIME in get_next_destination
BeforePickupStart(hour) == hour < PICKUP_START_TIME

\* an idle branch that sends the driver to the hub whatever the time
PickupNextIdleToHub(d) ==
    IF driver_hub_status[d]
    THEN Response("pickup_next", d, NoParcel, 200, "at_hub", NoParcel, 0)
    ELSE Via(Response("pickup_next", d, NoParcel, 200, "return_to_hub", NoParcel, 0),
             "none", {"route"})

\* The branch of get_next_destination taken when pending_pickups is empty.
PickupNextIdle(d) ==
    IF driver_hub_status[d]
    THEN Response("pickup_next", d, NoParcel, 200, "at_hub", NoParcel, 0)
    ELSE IF now.hour < PICKUP_CUTOFF_TIME
    THEN Response("pickup_next", d, NoParcel, 200, "waiting_for_orders", NoParcel, 0)
    ELSE Via(Response("pickup_next", d, NoParcel, 200, "return_to_hub", NoParcel, 0),
             "none", {"route"})

\* What the matrix step and the TSP step of one request come to.
\* kind: the matrix is unavailable, the adapter cannot be reached, it answers
\* non-200, or it answers 200 with the tour.
TspOutcomes ==
    {[kind |-> k, tour |-> <<>>] : k \in {"matrix_failed", "unreachable", "non200"}}
    \cup {[kind |-> "ok", tour |-> t] : t \in Tours}

\* The stop get_next_destination answers with when two or more stops are pending.
PickupNextStop(d, pending, tsp) ==
    LET n == Len(pending)
        choice == IF tsp.kind = "ok" THEN PickupTourChoice(tsp.tour, n) ELSE 0
    IN  IF tsp.kind = "unreachable" \/ choice = -1
        THEN Via(Response("pickup_next", d, NoParcel, 500, "error", NoParcel, n),
                 tsp.kind, {"matrix", "tsp"})
        ELSE IF choice >= 1
        THEN Via(Response("pickup_next", d, NoParcel, 200, "success", pending[choice], n),
                 tsp.kind, {"matrix", "tsp", "route"})
        ELSE Via(Response("pickup_next", d, NoParcel, 200, "success", pending[1], n),
                 tsp.kind,
                 IF tsp.kind = "matrix_failed" THEN {"matrix", "route"}
                 ELSE {"matrix", "tsp", "route"})

\* a router that leaves the hub flag as it is
ClearHubNever(d, pending) == driver_hub_status

\* a router that resets the hub flag of every driver
ClearHubOfAll(d, pending) ==
    IF pending # <<>>
    THEN [e \in DOMAIN driver_hub_status |-> FALSE]
    ELSE driver_hub_status

\* The reset of the hub flag when new work has arrived (lines 768-771).
ClearHub(d, pending) ==
    IF pending # <<>> /\ driver_hub_status[d]
    THEN [driver_hub_status EXCEPT ![d] = FALSE]
    ELSE driver_hub_status

\* GET /api/pickup/next
PickupNext ==
    /\ \E d \in Callers, dbUp \in BOOLEAN :
          IF d \notin PICKUP_DRIVERS
          THEN /\ driver_hub_status' = driver_hub_status
               /\ resp' = Response("pickup_next", d, NoParcel, 403, "error", NoParcel, 0)
          ELSE IF BeforePickupStart(now.hour)
          THEN /\ driver_hub_status' = driver_hub_status
               /\ resp' = Response("pickup_next", d, NoParcel, 200, "waiting", NoParcel, 0)
          ELSE LET pending == QueryResult(PendingPickups(d), dbUp)
               IN  IF pending = <<>>
                   THEN /\ driver_hub_status' = driver_hub_status
                        /\ resp' = PickupNextIdle(d)
                   ELSE /\ driver_hub_status' = ClearHub(d, pending)
                        /\ IF Len(pending) = 1
                           THEN resp' = Via(Response("pickup_next", d, NoParcel, 200,
                                                     "success", pending[1], 1),
                                            "none", {"route"})
                           ELSE \E tsp \in TspOutcomes :
                                   resp' = PickupNextStop(d, pending, tsp)
    /\ UNCHANGED <<parcel, now, delivery_hub_status>>

----------------------------------------------------------------------------
(* Delivery dispatcher *)

\* the completed pickups of today, whether or not a delivery driver is set
CompletedPickupsAnyDriverIn(store) ==
    {p \in Parcels : /\ store[p].status = "PICKUP_COMPLETED"
                     /\ IsToday(store[p].pickupCompletedAt)
                     /\ ~store[p].isDeleted}

\* get_completed_pickups_today_from_db (delivery_service), read from store
CompletedPickupsTodayIn(store) ==
    {p \in Parcels : /\ store[p].status = "PICKUP_COMPLETED"
                     /\ IsToday(store[p].pickupCompletedAt)
                     /\ ~store[p].isDeleted
                     /\ store[p].deliveryDriverId = NoDriver}

CompletedPickupsToday == CompletedPickupsTodayIn(parcel)

\* get_unassigned_deliveries_today_from_db, read from store
UnassignedDeliveriesTodayIn(store) ==
    {p \in Parcels : /\ store[p].status = "DELIVERY_PENDING"
                     /\ store[p].deliveryDriverId = NoDriver
                     /\ IsToday(store[p].pickupCompletedAt)
                     /\ ~store[p].isDeleted}

UnassignedDeliveriesToday == UnassignedDeliveriesTodayIn(parcel)

\* an UPDATE that converts a row whatever its status
ConvertAnyStatus(row) == ~row.isDeleted

\* convert_pickup_to_delivery_in_db: ... WHERE status = 'PICKUP_COMPLETED' AND isDeleted = 0
ConvertGuard(row) == row.status = "PICKUP_COMPLETED" /\ ~row.isDeleted

\* assign_delivery_driver_in_db: ... WHERE status = 'DELIVERY_PENDING' AND isDeleted = 0
AssignDeliveryGuard(row) == row.status = "DELIVERY_PENDING" /\ ~row.isDeleted

\* an UPDATE that completes a row whatever its status
CompleteDeliveryAnyStatus(row) == ~row.isDeleted

\* complete_delivery_in_db: ... WHERE status = 'DELIVERY_PENDING' AND isDeleted = 0
CompleteDeliveryGuard(row) == row.status = "DELIVERY_PENDING" /\ ~row.isDeleted

\* import_todays_pickups: the rows its loop converts. ok: the rows for which
\* the store's statements go through (a SELECT that raises is answered as [],
\* an UPDATE that raises as False: no row, or not that row, is converted).
ImportTodo(store, ok) ==
    {p \in CompletedPickupsTodayIn(store) : ConvertGuard(store[p]) /\ p \in ok}

\* import_todays_pickups: the store after the loop
Imported(store, ok) ==
    [p \in Parcels |->
        IF p \in ImportTodo(store, ok)
        THEN [store[p] EXCEPT !.status = "DELIVERY_PENDING"]
        ELSE store[p]]

\* a lookup that reads the district from the address text only
DeliveryDriverForText(store, p, up) == DeliveryDriverOf(store[p].recipientAddr.text)

\* assign_to_drivers: the district of a row (geocoder first, textual suffix
\* next) looked up in the table; up: the parcels whose geocoder call is answered.
DeliveryDriverFor(store, p, up) ==
    DeliveryDriverOf(ExtractDistrict(store[p].recipientAddr, p \in up))

\* assign_to_drivers: the rows its loops assign; ok as in ImportTodo.
AssignTodo(store, up, ok) ==
    {p \in UnassignedDeliveriesTodayIn(store) :
        /\ DeliveryDriverFor(store, p, up) # NoDriver
        /\ AssignDeliveryGuard(store[p])
        /\ p \in ok}

\* assign_to_drivers: the store after the loops
Assigned(store, up, ok) ==
    [p \in Parcels |->
        IF p \in AssignTodo(store, up, ok)
        THEN [store[p] EXCEPT !.deliveryDriverId = DeliveryDriverFor(store, p, up),
                              !.isNextDeliveryTarget = TRUE]
        ELSE store[p]]

\* POST /api/delivery/import
DeliveryImport ==
    /\ \E ok \in SUBSET CompletedPickupsToday :
          /\ parcel' = Imported(parcel, ok)
          /\ resp' = Logged(Response("delivery_import", NoDriver, NoParcel, 200, "success",
                                     NoParcel, Cardinality(ImportTodo(parcel, ok))),
                            CompletedPickupsToday \ ok, {})
    /\ UNCHANGED <<now, driver_hub_status, delivery_hub_status>>

\* POST /api/delivery/assign; up: the rows whose geocoder call is answered.
DeliveryAssign ==
    /\ \E up \in SUBSET UnassignedDeliveriesToday, ok \in SUBSET UnassignedDeliveriesToday :
          /\ parcel' = Assigned(parcel, up, ok)
          /\ resp' = Logged(Response("delivery_assign", NoDriver, NoParcel, 200, "success",
                                     NoParcel, Cardinality(AssignTodo(parcel, up, ok))),
                            {p \in UnassignedDeliveriesToday :
                                DeliveryDriverFor(parcel, p, up) # NoDriver /\ p \notin ok},
                            {p \in UnassignedDeliveriesToday :
                                ExtractDistrict(parcel[p].recipientAddr, p \in up) = ""})
    /\ UNCHANGED <<now, driver_hub_status, delivery_hub_status>>

\* POST /api/delivery/complete
DeliveryComplete ==
    /\ \E d \in Callers, p \in Parcels :
          IF parcel[p].deliveryDriverId # d
          THEN /\ parcel' = parcel
               /\ resp' = Response("delivery_complete", d, p, 403, "error", NoParcel, 0)
          ELSE IF CompleteDeliveryGuard(parcel[p])
          THEN /\ parcel' = [parcel EXCEPT ![p].status = "DELIVERY_COMPLETED",
                                           ![p].isNextDeliveryTarget = FALSE,
                                           ![p].deliveryCompletedAt = <<Today>>]
               /\ resp' = Response("delivery_complete", d, p, 200, "success", NoParcel,
                                   Len(PendingDeliveries(d))')
          ELSE /\ parcel' = parcel
               /\ resp' = Response("delivery_complete", d, p, 500, "error", NoParcel, 0)
    /\ UNCHANGED <<now, driver_hub_status, delivery_hub_status>>

\* POST /api/delivery/hub-arrived: delivery_service registers no such route
\* and no catch-all, so the framework answers 404 and no handler runs.
DeliveryHubArrived ==
    /\ \E d \in Callers :
          resp' = Response("delivery_hub_arrived", d, NoParcel, 404, "error", NoParcel, 0)
    /\ UNCHANGED <<parcel, now, driver_hub_status, delivery_hub_status>>

\* calculate_optimal_next_destination's index into locations
\* (locations[0] is the current location, locations[k] the k-th pending stop).
DeliveryTourChoice(tsp, nloc) ==
    IF tsp.kind # "ok" THEN 1
    ELSE IF Len(tsp.tour) <= 1 THEN 1
    ELSE LET rest == {i \in 2..Len(tsp.tour) : tsp.tour[i] # 0}
             next_idx == IF rest = {} THEN 1
                         ELSE tsp.tour[CHOOSE i \in rest : \A j \in rest : i <= j]
         IN  IF next_idx < nloc THEN next_idx ELSE 1

\* The services calculate_optimal_next_destination calls: the route call is
\* skipped when the function ends in its except branch (the adapter cannot
\* be reached, or locations[next_idx] raises IndexError).
DeliveryCalls(tsp, nloc) ==
    LET rest == {i \in 2..Len(tsp.tour) : tsp.tour[i] # 0}
        raises == /\ tsp.kind = "ok" /\ Len(tsp.tour) > 1 /\ rest # {}
                  /\ tsp.tour[CHOOSE i \in rest : \A j \in rest : i <= j] >= nloc
    IN  IF tsp.kind = "matrix_failed" THEN {"matrix", "route"}
        ELSE IF tsp.kind = "unreachable" \/ raises THEN {"matrix", "tsp"}
        ELSE {"matrix", "tsp", "route"}

\* GET /api/delivery/next
DeliveryNext ==
    /\ \E d \in Callers, dbUp \in BOOLEAN :
          IF now.hour < DELIVERY_START_TIME
          THEN /\ delivery_hub_status' = delivery_hub_status
               /\ resp' = Response("delivery_next", d, NoParcel, 200, "waiting", NoParcel, 0)
          ELSE LET pending == QueryResult(PendingDeliveries(d), dbUp)
                   n == Len(pending)
               IN  IF pending = <<>>
                   THEN /\ delivery_hub_status' = delivery_hub_status
                        /\ resp' = IF delivery_hub_status[d]
                                   THEN Response("delivery_next", d, NoParcel, 200, "at_hub",
                                                 NoParcel, 0)
                                   ELSE Via(Response("delivery_next", d, NoParcel, 200,
                                                     "return_to_hub", NoParcel, 0),
                                            "none", {"route"})
                   ELSE /\ delivery_hub_status' =
                              IF delivery_hub_status[d]
                              THEN [delivery_hub_status EXCEPT ![d] = FALSE]
                              ELSE delivery_hub_status
                        /\ \E tsp \in TspOutcomes :
                              resp' = Via(Response("delivery_next", d, NoParcel, 200,
                                                   "success",
                                                   pending[DeliveryTourChoice(tsp, n + 1)], n),
                                          tsp.kind, DeliveryCalls(tsp, n + 1))
    /\ UNCHANGED <<parcel, now, driver_hub_status>>

----------------------------------------------------------------------------
(* Pickup dispatcher: the handoff to delivery *)

\* a pending count that skips the rows no driver has been assigned to
TotalPendingAssigned ==
    Cardinality({p \in Parcels : /\ parcel[p].status = "PICKUP_PENDING"
                                 /\ parcel[p].pickupDriverId # NoDriver
                                 /\ \/ parcel[p].pickupScheduledDate = <<>>
                                    \/ parcel[p].pickupScheduledDate[1] <= Today
                                 /\ ~parcel[p].isDeleted})

\* check_all_completed's sql_pending, summed over its groups: every
\* PICKUP_PENDING row due today or earlier, whichever driver (or none) it has.
TotalPending ==
    Cardinality({p \in Parcels : /\ parcel[p].status = "PICKUP_PENDING"
                                 /\ \/ parcel[p].pickupScheduledDate = <<>>
                                    \/ parcel[p].pickupScheduledDate[1] <= Today
                                 /\ ~parcel[p].isDeleted})

\* check_all_completed's sql_completed
TotalCompleted ==
    Cardinality({p \in Parcels : /\ parcel[p].status = "PICKUP_COMPLETED"
                                 /\ IsToday(parcel[p].pickupCompletedAt)
                                 /\ ~parcel[p].isDeleted})

\* How far the two requests.post calls to the delivery service get: both
\* answer; the first answers and the second raises; the first raises.
Downstream == {"both", "import_only", "none"}

\* GET /api/pickup/all-completed. dbUp: the two counting queries answer;
\* up: the rows whose geocoder call is answered inside /delivery/assign;
\* ok, ok1, ok2: as in ImportTodo, for the downstream handlers.
\* In the response, remaining is total_pending, status "completed" /
\* "not_completed" is the completed field, and status "error" is the body of
\* the outer except, which has no completed field.
AllCompleted ==
    /\ \E dbUp \in BOOLEAN :
          IF ~dbUp
          THEN /\ parcel' = parcel
               /\ resp' = Response("all_completed", NoDriver, NoParcel, 500, "error",
                                   NoParcel, 0)
          ELSE IF TotalPending > 0
          THEN /\ parcel' = parcel
               /\ resp' = Response("all_completed", NoDriver, NoParcel, 200, "not_completed",
                                   NoParcel, TotalPending)
          ELSE IF TotalCompleted > 0
          THEN \E reach \in Downstream :
               CASE reach = "none" ->
                      /\ parcel' = parcel
                      /\ resp' = Via(Response("all_completed", NoDriver, NoParcel, 500,
                                              "completed", NoParcel, 0),
                                     "none", {"import"})
                 [] reach = "import_only" ->
                      /\ \E ok \in SUBSET CompletedPickupsToday :
                            parcel' = Imported(parcel, ok)
                      /\ resp' = Via(Response("all_completed", NoDriver, NoParcel, 500,
                                              "completed", NoParcel, 0),
                                     "none", {"import", "assign"})
                 [] reach = "both" ->
                      /\ \E ok1 \in SUBSET CompletedPickupsToday :
                            LET store == Imported(parcel, ok1)
                            IN  \E up \in SUBSET UnassignedDeliveriesTodayIn(store),
                                   ok2 \in SUBSET UnassignedDeliveriesTodayIn(store) :
                                   parcel' = Assigned(store, up, ok2)
                      /\ resp' = Via(Response("all_completed", NoDriver, NoParcel, 200,
                                              "completed", NoParcel, 0),
                                     "none", {"import", "assign"})
          ELSE /\ parcel' = parcel
               /\ resp' = Response("all_completed", NoDriver, NoParcel, 200, "completed",
                                   NoParcel, 0)
    /\ UNCHANGED <<now, driver_hub_status, delivery_hub_status>>

----------------------------------------------------------------------------
(* Authentication: the auth_required decorator of the driver endpoints *)

\* What jwt.decode makes of a token string: "" is the empty string; "garbage"
\* fails decoding or the signature check (InvalidTokenError); "expired" has a
\* good signature and a past exp claim; "no_user_id" verifies but carries
\* neither userId nor user_id; "valid" verifies and carries a user id.
JwtKinds == {"garbage", "expired", "no_user_id", "valid"}

\* Authorization headers: absent, or the header's value split at blanks.
Headers ==
    {[present |-> FALSE, parts |-> <<>>]}
    \cup {[present |-> TRUE, parts |-> ps] :
             ps \in {<<"Bearer">>, <<"Bearer", "">>} \cup {<<"Bearer", t>> : t \in JwtKinds}}

\* The header of a request whose token verifies.
VerifiedHeader == [present |-> TRUE, parts |-> <<"Bearer", "valid">>]

\* a decorator that does not look at the exp claim
AuthRequiredNoExpiry(header) ==
    IF header.present /\ Len(header.parts) < 2
    THEN 401
    ELSE LET token == IF header.present THEN header.parts[2] ELSE ""
         IN  IF token = "" THEN 401
             ELSE IF token \in {"valid", "expired"} THEN 200
             ELSE 401

\* auth_required: 401 when it answers itself, 200 when it calls the handler.
AuthRequired(header) ==
    IF header.present /\ Len(header.parts) < 2
    THEN 401                                    \* IndexError on split(' ')[1]
    ELSE LET token == IF header.present THEN header.parts[2] ELSE ""
         IN  IF token = "" THEN 401             \* if not token
             ELSE CASE token = "expired"    -> 401   \* ExpiredSignatureError
                    [] token = "garbage"    -> 401   \* InvalidTokenError
                    [] token = "no_user_id" -> 401   \* no userId / user_id key
                    [] OTHER                -> 200

\* The decorated handler: the decorator's own answer, or the handler's step.
Decorated(op, Handler) ==
    \E header \in Headers :
        /\ auth_header' = header
        /\ IF AuthRequired(header) = 401
           THEN /\ resp' = Response(op, NoDriver, NoParcel, 401, "error", NoParcel, 0)
                /\ UNCHANGED <<parcel, now, driver_hub_status, delivery_hub_status>>
           ELSE Handler

----------------------------------------------------------------------------
(* The dispatchers' specification *)

NewParcel(addr) ==
    [status |-> "PICKUP_PENDING", pickupDriverId |-> NoDriver, deliveryDriverId |-> NoDriver,
     pickupScheduledDate |-> <<>>, pickupCompletedAt |-> <<>>, deliveryCompletedAt |-> <<>>,
     isNextPickupTarget |-> FALSE, isNextDeliveryTarget |-> FALSE, isDeleted |-> FALSE,
     recipientAddr |-> addr]

IdleLkh == /\ lkh_req = [pc |-> "idle"]
           /\ lkh_resp = [code |-> 0]

\* traffic_data = {} at import; cycle names the fetch_traffic_data call that
\* built the dict object (0: the initial empty dict).
EmptyTable == [cycle |-> 0, speeds |-> <<>>]

IdleRoute ==
    [pc |-> "idle", use_traffic |-> FALSE, maneuvers |-> <<>>, m |-> 0, reads |-> {},
     speeds |-> <<>>, count |-> 0, code |-> 0]

\* no call of the stateless endpoints has been made
NoCall == [op |-> "none"]

IdleTraffic == /\ traffic_data = EmptyTable
               /\ new_traffic_data = <<>>
               /\ updater = [pc |-> "sleep", i |-> 0, cycle |-> 0]
               /\ route_req = IdleRoute
               /\ last_call = NoCall
               /\ inflight = <<>>

\* The store holds freshly created parcels; the services have just started.
InitDispatch ==
    /\ parcel \in [Parcels -> {NewParcel(a) : a \in Addresses}]
    /\ driver_hub_status = [d \in Callers |-> FALSE]
    /\ delivery_hub_status = [d \in Callers |-> FALSE]
    /\ resp = Response("none", NoDriver, NoParcel, 0, "none", NoParcel, 0)
    /\ auth_header = VerifiedHeader

\* The pickup dispatcher over the days of the model.
Init ==
    /\ InitDispatch
    /\ now \in {[day |-> 0, hour |-> h] : h \in ClockHours}
    /\ IdleLkh
    /\ IdleTraffic

NextPickup ==
    \/ Tick /\ UNCHANGED nonDispatchVars
    \/ Webhook /\ UNCHANGED nonDispatchVars
    \/ PickupNext /\ UNCHANGED nonDispatchVars
    \/ PickupComplete /\ UNCHANGED nonDispatchVars
    \/ HubArrived /\ UNCHANGED nonDispatchVars

Spec == Init /\ [][NextPickup]_vars

\* Both dispatchers over the last day of the model.
InitSystem ==
    /\ InitDispatch
    /\ now \in {[day |-> MaxDay, hour |-> h] : h \in ClockHours}
    /\ IdleLkh
    /\ IdleTraffic

NextSystem ==
    \/ NextPickup
    \/ AllCompleted /\ UNCHANGED nonDispatchVars
    \/ DeliveryImport /\ UNCHANGED nonDispatchVars
    \/ DeliveryAssign /\ UNCHANGED nonDispatchVars
    \/ DeliveryNext /\ UNCHANGED nonDispatchVars
    \/ DeliveryComplete /\ UNCHANGED nonDispatchVars
    \/ DeliveryHubArrived /\ UNCHANGED nonDispatchVars

SpecSystem == InitSystem /\ [][NextSystem]_vars

\* The driver endpoints behind their decorator, in the afternoon of a day on
\* which every odd parcel is still to be picked up by driver 5 and every even
\* parcel has been handed over to delivery driver 10.
AfternoonParcel(p) ==
    LET new == NewParcel(CHOOSE a \in Addresses : a.api = "gangnam_gu")
    IN  IF p % 2 = 1
        THEN [new EXCEPT !.pickupDriverId = 5, !.isNextPickupTarget = TRUE,
                         !.pickupScheduledDate = <<MaxDay>>]
        ELSE [new EXCEPT !.pickupDriverId = 5, !.pickupScheduledDate = <<MaxDay>>,
                         !.pickupCompletedAt = <<MaxDay>>, !.status = "DELIVERY_PENDING",
                         !.deliveryDriverId = 10, !.isNextDeliveryTarget = TRUE]

InitAuth ==
    /\ parcel = [p \in Parcels |-> AfternoonParcel(p)]
    /\ now = [day |-> MaxDay, hour |-> DELIVERY_START_TIME]
    /\ driver_hub_status = [d \in Callers |-> FALSE]
    /\ delivery_hub_status = [d \in Callers |-> FALSE]
    /\ resp = Response("none", NoDriver, NoParcel, 0, "none", NoParcel, 0)
    /\ auth_header = VerifiedHeader
    /\ IdleLkh
    /\ IdleTraffic

NextAuth ==
    \/ Decorated("pickup_next", PickupNext) /\ UNCHANGED <<lkhVars, trafficVars, proxyVars, flightVars>>
    \/ Decorated("pickup_complete", PickupComplete) /\ UNCHANGED <<lkhVars, trafficVars, proxyVars, flightVars>>
    \/ Decorated("hub_arrived", HubArrived) /\ UNCHANGED <<lkhVars, trafficVars, proxyVars, flightVars>>
    \/ Decorated("delivery_next", DeliveryNext) /\ UNCHANGED <<lkhVars, trafficVars, proxyVars, flightVars>>
    \/ Decorated("delivery_complete", DeliveryComplete) /\ UNCHANGED <<lkhVars, trafficVars, proxyVars, flightVars>>

SpecAuth == InitAuth /\ [][NextAuth]_vars

----------------------------------------------------------------------------
(* The driver lookup behind the driver endpoints *)

\* What get_current_driver meets: the request carries no current_user_id,
\* the User row is missing, the DriverInfo row is missing, the store raises,
\* or both rows are found.
LookupOutcomes == {"no_attribute", "no_user", "no_driver_info", "store_error", "found"}

\* a lookup whose fallback records name a driver under user_id
GetCurrentDriverDefaulting(user_id, outcome, row) ==
    IF outcome = "found"
    THEN [id |-> row, name |-> "user", user_id |-> user_id]
    ELSE [id |-> 1, name |-> "Default Driver", user_id |-> 1]

\* get_current_driver: the dict it returns (id, name and, only when both
\* rows are found, user_id); row: the id of the DriverInfo row.
GetCurrentDriver(user_id, outcome, row) ==
    CASE outcome = "no_attribute"   -> [id |-> 1, name |-> "Default Driver"]
      [] outcome = "no_user"        -> [id |-> user_id, name |-> "Unknown Driver"]
      [] outcome = "no_driver_info" -> [id |-> user_id, name |-> "user"]
      [] outcome = "store_error"    -> [id |-> user_id, name |-> "Error Driver"]
      [] OTHER                      -> [id |-> row, name |-> "user", user_id |-> user_id]

\* A driver endpoint called with a verified token of user u: the handler's
\* first two statements (driver_info = get_current_driver(); driver_id =
\* driver_info['user_id'], a KeyError caught by the handler's except: 500),
\* then the rest of the handler as driver_id.
Identified(op, Handler) ==
    \E u \in Callers, outcome \in LookupOutcomes, row \in Callers :
        LET driver_info == GetCurrentDriver(u, outcome, row)
        IN  /\ last_call' = [op |-> "get_current_driver", user_id |-> u,
                             outcome |-> outcome, driver_info |-> driver_info]
            /\ IF "user_id" \in DOMAIN driver_info
               THEN Handler /\ resp'.driver = driver_info.user_id
               ELSE /\ resp' = Response(op, NoDriver, NoParcel, 500, "error", NoParcel, 0)
                    /\ UNCHANGED <<parcel, now, driver_hub_status, delivery_hub_status>>

NextLookup ==
    \/ Identified("pickup_next", PickupNext) /\ UNCHANGED <<lkhVars, trafficVars, authVars, flightVars>>
    \/ Identified("pickup_complete", PickupComplete) /\ UNCHANGED <<lkhVars, trafficVars, authVars, flightVars>>
    \/ Identified("hub_arrived", HubArrived) /\ UNCHANGED <<lkhVars, trafficVars, authVars, flightVars>>
    \/ Identified("delivery_next", DeliveryNext) /\ UNCHANGED <<lkhVars, trafficVars, authVars, flightVars>>
    \/ Identified("delivery_complete", DeliveryComplete) /\ UNCHANGED <<lkhVars, trafficVars, authVars, flightVars>>

SpecLookup == InitAuth /\ [][NextLookup]_vars

\* The rows of a parcel of district gangnam_gu along its life on the last
\* day of the model, each as it is and as its owner has soft-deleted it.
StoredRows ==
    LET new       == NewParcel(CHOOSE a \in Addresses : a.api = "gangnam_gu")
        pending   == [new EXCEPT !.pickupDriverId = 5, !.isNextPickupTarget = TRUE,
                                 !.pickupScheduledDate = <<MaxDay>>]
        picked    == [pending EXCEPT !.status = "PICKUP_COMPLETED",
                                     !.isNextPickupTarget = FALSE,
                                     !.pickupCompletedAt = <<MaxDay>>]
        imported  == [picked EXCEPT !.status = "DELIVERY_PENDING"]
        assigned  == [imported EXCEPT !.deliveryDriverId = 10,
                                      !.isNextDeliveryTarget = TRUE]
        delivered == [assigned EXCEPT !.status = "DELIVERY_COMPLETED",
                                      !.isNextDeliveryTarget = FALSE,
                                      !.deliveryCompletedAt = <<MaxDay>>]
        rows      == {new, pending, picked, imported, assigned, delivered}
    IN  rows \cup {[r EXCEPT !.isDeleted = TRUE] : r \in rows}

\* Both dispatchers over a store that holds soft-deleted rows, in the
\* morning and in the afternoon of the last day.
InitDeleted ==
    /\ parcel \in [Parcels -> StoredRows]
    /\ now \in {[day |-> MaxDay, hour |-> h] : h \in {PICKUP_START_TIME, DELIVERY_START_TIME}}
    /\ driver_hub_status = [d \in Callers |-> FALSE]
    /\ delivery_hub_status = [d \in Callers |-> FALSE]
    /\ resp = Response("none", NoDriver, NoParcel, 0, "none", NoParcel, 0)
    /\ auth_header = VerifiedHeader
    /\ IdleLkh
    /\ IdleTraffic

NextDeleted ==
    \/ Webhook /\ UNCHANGED nonDispatchVars
    \/ PickupNext /\ UNCHANGED nonDispatchVars
    \/ PickupComplete /\ UNCHANGED nonDispatchVars
    \/ HubArrived /\ UNCHANGED nonDispatchVars
    \/ AllCompleted /\ UNCHANGED nonDispatchVars
    \/ DeliveryImport /\ UNCHANGED nonDispatchVars
    \/ DeliveryAssign /\ UNCHANGED nonDispatchVars
    \/ DeliveryNext /\ UNCHANGED nonDispatchVars
    \/ DeliveryComplete /\ UNCHANGED nonDispatchVars

SpecDeleted == InitDeleted /\ [][NextDeleted]_vars

----------------------------------------------------------------------------
(* The delivery dispatcher serving requests at the same time *)

\* The web server runs each request in its own thread; every statement a
\* handler sends to the store is one step (the store runs an UPDATE with its
\* WHERE clause as one transaction), and the steps of different requests
\* interleave.
MaxRequests == 2

RequestIds == 1..MaxRequests

\* A request as it is received, with the handler's locals unset.
Request(op, d, p) ==
    [op |-> op, pc |-> "received", driver |-> d, parcel |-> p, code |-> 0,
     rowcount |-> 0, remaining |-> 0, todo |-> {}, converted |-> 0]

FlightRequests ==
    {Request("delivery_complete", d, p) : d \in Callers, p \in Parcels}
    \cup {Request("delivery_import", NoDriver, NoParcel)}

\* complete_delivery: SELECT deliveryDriverId FROM Parcel WHERE id = %s
CompleteLookup(r) ==
    LET q == inflight[r]
    IN  /\ q.op = "delivery_complete" /\ q.pc = "received"
        /\ inflight' = [inflight EXCEPT ![r] =
              IF parcel[q.parcel].deliveryDriverId # q.driver
              THEN [q EXCEPT !.pc = "done", !.code = 403]
              ELSE [q EXCEPT !.pc = "checked"]]
        /\ UNCHANGED parcel

\* complete_delivery_in_db: the guarded UPDATE and its rowcount
CompleteUpdate(r) ==
    LET q == inflight[r]
    IN  /\ q.op = "delivery_complete" /\ q.pc = "checked"
        /\ IF CompleteDeliveryGuard(parcel[q.parcel])
           THEN /\ parcel' = [parcel EXCEPT ![q.parcel].status = "DELIVERY_COMPLETED",
                                            ![q.parcel].isNextDeliveryTarget = FALSE,
                                            ![q.parcel].deliveryCompletedAt = <<Today>>]
                /\ inflight' = [inflight EXCEPT ![r] = [q EXCEPT !.pc = "updated",
                                                                 !.rowcount = 1]]
           ELSE /\ parcel' = parcel
                /\ inflight' = [inflight EXCEPT ![r] = [q EXCEPT !.pc = "done",
                                                                 !.code = 500]]

\* complete_delivery: get_real_pending_deliveries and the success answer
CompleteCount(r) ==
    LET q == inflight[r]
    IN  /\ q.op = "delivery_complete" /\ q.pc = "updated"
        /\ inflight' = [inflight EXCEPT ![r] =
              [q EXCEPT !.pc = "done", !.code = 200,
                        !.remaining = Len(PendingDeliveries(q.driver))]]
        /\ UNCHANGED parcel

\* import_todays_pickups: get_completed_pickups_today_from_db (no ORDER BY;
\* [] when the query raises)
ImportSelect(r) ==
    LET q == inflight[r]
    IN  /\ q.op = "delivery_import" /\ q.pc = "received"
        /\ \E dbUp \in BOOLEAN :
              inflight' = [inflight EXCEPT ![r] =
                 [q EXCEPT !.pc = "looping",
                           !.todo = IF dbUp THEN CompletedPickupsToday ELSE {}]]
        /\ UNCHANGED parcel

\* import_todays_pickups: one turn of the loop, convert_pickup_to_delivery_in_db
\* on one selected row (dbUp: the UPDATE does not raise)
ImportConvert(r) ==
    LET q == inflight[r]
    IN  /\ q.op = "delivery_import" /\ q.pc = "looping"
        /\ \E p \in q.todo, dbUp \in BOOLEAN :
              IF dbUp /\ ConvertGuard(parcel[p])
              THEN /\ parcel' = [parcel EXCEPT ![p].status = "DELIVERY_PENDING"]
                   /\ inflight' = [inflight EXCEPT ![r] =
                         [q EXCEPT !.todo = q.todo \ {p}, !.rowcount = 1,
                                   !.converted = q.converted + 1]]
              ELSE /\ parcel' = parcel
                   /\ inflight' = [inflight EXCEPT ![r] =
                         [q EXCEPT !.todo = q.todo \ {p}, !.rowcount = 0]]

\* import_todays_pickups: the answer after the loop
ImportAnswer(r) ==
    LET q == inflight[r]
    IN  /\ q.op = "delivery_import" /\ q.pc = "looping" /\ q.todo = {}
        /\ inflight' = [inflight EXCEPT ![r] = [q EXCEPT !.pc = "done", !.code = 200]]
        /\ UNCHANGED parcel

\* The rows of the afternoon that are picked up, imported or assigned.
FlightRows ==
    {row \in StoredRows : /\ ~row.isDeleted
                          /\ row.status \in {"PICKUP_COMPLETED", "DELIVERY_PENDING"}}

InitFlight ==
    /\ parcel \in [Parcels -> FlightRows]
    /\ now = [day |-> MaxDay, hour |-> DELIVERY_START_TIME]
    /\ driver_hub_status = [d \in Callers |-> FALSE]
    /\ delivery_hub_status = [d \in Callers |-> FALSE]
    /\ resp = Response("none", NoDriver, NoParcel, 0, "none", NoParcel, 0)
    /\ auth_header = VerifiedHeader
    /\ IdleLkh
    /\ traffic_data = EmptyTable
    /\ new_traffic_data = <<>>
    /\ updater = [pc |-> "sleep", i |-> 0, cycle |-> 0]
    /\ route_req = IdleRoute
    /\ last_call = NoCall
    /\ inflight \in [RequestIds -> FlightRequests]

flightFrame == <<now, driver_hub_status, delivery_hub_status, resp, lkhVars, trafficVars,
                 authVars, proxyVars>>

NextFlight ==
    \/ \E r \in RequestIds : CompleteLookup(r) /\ UNCHANGED flightFrame
    \/ \E r \in RequestIds : CompleteUpdate(r) /\ UNCHANGED flightFrame
    \/ \E r \in RequestIds : CompleteCount(r) /\ UNCHANGED flightFrame
    \/ \E r \in RequestIds : ImportSelect(r) /\ UNCHANGED flightFrame
    \/ \E r \in RequestIds : ImportConvert(r) /\ UNCHANGED flightFrame
    \/ \E r \in RequestIds : ImportAnswer(r) /\ UNCHANGED flightFrame

SpecFlight == InitFlight /\ [][NextFlight]_vars

----------------------------------------------------------------------------
(* The TSP solver adapter: POST /solve *)

MaxNodes == 3
MaxLines == 4

\* Python None for the parsed stdout cost (optimal_cost = -1.0)
NoCost == -1

Digits == <<"0", "1", "2", "3", "4", "5", "6", "7", "8", "9">>

\* int(node_str) succeeds
IsInt(tok) == \E i \in 1..Len(Digits) : Digits[i] = tok

\* int(node_str)
IntOf(tok) == (CHOOSE i \in 1..Len(Digits) : Digits[i] = tok) - 1

\* The stripped lines a tour file may hold.
LineTokens == {"TOUR_SECTION", "-1", "EOF", "COMMENT"}
                  \cup {Digits[i] : i \in 1..(MaxNodes + 2)}

TourFiles ==
    {[exists |-> FALSE, lines |-> <<>>]}
    \cup {[exists |-> TRUE, lines |-> l] :
             l \in UNION {[1..k -> LineTokens] : k \in 0..MaxLines}}

\* How the solver process ends: exit 0, TimeoutExpired, FileNotFoundError,
\* CalledProcessError.
RunKinds == {"ok", "timeout", "absent", "nonzero"}

\* The request's matrix: entry (i, j) of one of two weight tables.
MatrixKinds == {"asym", "line"}

Weight(m, i, j) ==
    IF i = j THEN 0
    ELSE IF m = "asym" THEN 10 * (i + 1) + j
    ELSE 5 * (IF i > j THEN i - j ELSE j - i)

\* the cost printed on the solver's stdout, NoCost when no line parses
StdoutCosts == {NoCost, 42}

\* Requests with a square matrix of n rows (n = 0: rejected as not square).
\* The solver only runs for n >= 3.
SolveRequests ==
    {[pc |-> "received", n |-> n, matrix |-> m, run |-> r,
      file |-> [exists |-> FALSE, lines |-> <<>>], cost |-> NoCost] :
        n \in 0..MaxNodes, m \in MatrixKinds, r \in RunKinds}
    \cup {[pc |-> "received", n |-> n, matrix |-> m, run |-> "ok", file |-> f, cost |-> c] :
             n \in 3..MaxNodes, m \in MatrixKinds, f \in TourFiles, c \in StdoutCosts}

\* index after the first line equal to TOUR_SECTION, -1 when there is none
TourSectionStart(lines) ==
    LET hits == {i \in 1..Len(lines) : lines[i] = "TOUR_SECTION"}
    IN  IF hits = {} THEN -1
        ELSE (CHOOSE i \in hits : \A j \in hits : i <= j) + 1

RECURSIVE ParseTour(_, _)
\* the loop over lines[tour_section_start:]
ParseTour(lines, i) ==
    IF i > Len(lines) THEN <<>>
    ELSE IF lines[i] = "-1" \/ lines[i] = "EOF" THEN <<>>
    ELSE IF IsInt(lines[i]) THEN <<IntOf(lines[i]) - 1>> \o ParseTour(lines, i + 1)
    ELSE ParseTour(lines, i + 1)

\* the validity test of the parsed tour (its failure is only printed)
TourValid(tour, n) ==
    Len(tour) = n /\ {tour[i] : i \in 1..Len(tour)} = 0..(n - 1)

\* time_matrix[from_node, to_node] is defined (negative indices wrap)
Indexable(node, n) == -n <= node /\ node < n

RECURSIVE SumCost(_, _, _, _)
\* the recalculation loop: sum of time_matrix[tour[i], tour[(i + 1) % n]]
SumCost(tour, n, m, i) ==
    IF i >= n THEN 0
    ELSE Weight(m, tour[i + 1] % n, tour[((i + 1) % n) + 1] % n)
             + SumCost(tour, n, m, i + 1)

None == [ok |-> FALSE, tour |-> <<>>, cost |-> 0]

\* solve_tsp_with_lkh for n >= 2
SolveTspWithLkh(req) ==
    LET n     == req.n
        start == TourSectionStart(req.file.lines)
        tour  == ParseTour(req.file.lines, start)
    IN  IF req.run # "ok" THEN None
        ELSE IF ~req.file.exists THEN None
        ELSE IF start = -1 THEN None
        ELSE IF tour = <<>> THEN None
        ELSE IF req.cost < 0 /\ Len(tour) = n
        THEN IF \E i \in 1..n : ~Indexable(tour[i], n)
             THEN None
             ELSE [ok |-> TRUE, tour |-> tour, cost |-> SumCost(tour, n, req.matrix, 0)]
        ELSE [ok |-> TRUE, tour |-> tour, cost |-> req.cost]

SolveResponse(code, tour, len) == [code |-> code, tour |-> tour, tour_length |-> len]

\* POST /solve
Solve ==
    /\ lkh_req.pc = "received"
    /\ lkh_req' = [lkh_req EXCEPT !.pc = "done"]
    /\ lkh_resp' =
          IF lkh_req.n = 0 THEN SolveResponse(400, <<>>, 0)
          ELSE IF lkh_req.n = 1 THEN SolveResponse(200, <<0>>, 0)
          ELSE IF lkh_req.n = 2
          THEN SolveResponse(200, <<0, 1>>, Weight(lkh_req.matrix, 0, 1))
          ELSE LET r == SolveTspWithLkh(lkh_req)
               IN  IF ~r.ok THEN SolveResponse(500, <<>>, 0)
                   ELSE SolveResponse(200, r.tour, r.cost)

\* The dispatchers at rest.
QuietDispatch ==
    /\ parcel = [p \in Parcels |-> NewParcel(CHOOSE a \in Addresses : a.text = "")]
    /\ now = [day |-> 0, hour |-> PICKUP_START_TIME - 1]
    /\ driver_hub_status = [d \in Callers |-> FALSE]
    /\ delivery_hub_status = [d \in Callers |-> FALSE]
    /\ resp = Response("none", NoDriver, NoParcel, 0, "none", NoParcel, 0)
    /\ auth_header = VerifiedHeader

InitLKH ==
    /\ QuietDispatch
    /\ IdleTraffic
    /\ lkh_req \in SolveRequests
    /\ lkh_resp = SolveResponse(0, <<>>, 0)

NextLKH == Solve /\ UNCHANGED nonLkhVars

SpecLKH == InitLKH /\ [][NextLKH]_vars

----------------------------------------------------------------------------
(* The traffic proxy: the background refresh and POST /route *)

NumLinks == 2
MaxCycles == 2
MaxManeuvers == 2

\* prcs_spd values of the feed
Speeds == {0, 30, 80}

\* a link whose request fails or whose answer carries no usable row
NoSpeed == -1

\* update_loop: the next call of fetch_traffic_data starts (new_traffic_data = {})
FetchBegin ==
    /\ updater.pc = "sleep"
    /\ updater.cycle < MaxCycles
    /\ new_traffic_data' = <<>>
    /\ updater' = [pc |-> "fetch", i |-> 1, cycle |-> updater.cycle + 1]
    /\ UNCHANGED <<traffic_data, route_req>>

\* one iteration of the loop over service_links
FetchLink ==
    /\ updater.pc = "fetch"
    /\ updater.i <= NumLinks
    /\ \E speed \in Speeds \cup {NoSpeed} :
          new_traffic_data' = IF speed = NoSpeed THEN new_traffic_data
                              ELSE Append(new_traffic_data, speed)
    /\ updater' = [updater EXCEPT !.i = updater.i + 1]
    /\ UNCHANGED <<traffic_data, route_req>>

\* traffic_data = new_traffic_data
FetchSwap ==
    /\ updater.pc = "fetch"
    /\ updater.i > NumLinks
    /\ traffic_data' = [cycle |-> updater.cycle, speeds |-> new_traffic_data]
    /\ updater' = [updater EXCEPT !.pc = "sleep"]
    /\ UNCHANGED <<new_traffic_data, route_req>>

\* A speed as a ratio sum / cnt; cnt = 0 stands for None.
NoMatch == [sum |-> 0, cnt |-> 0]

RECURSIVE SumSeq(_)
SumSeq(q) == IF q = <<>> THEN 0 ELSE Head(q) + SumSeq(Tail(q))

\* the loop over traffic_data.items(): the first speed > 0
FirstPositive(speeds) ==
    LET hits == {i \in 1..Len(speeds) : speeds[i] > 0}
    IN  IF hits = {} THEN NoMatch
        ELSE [sum |-> speeds[CHOOSE i \in hits : \A j \in hits : i <= j], cnt |-> 1]

\* the average of the speeds in 5..100, used when it is below 40
FallbackAverage(speeds) ==
    LET real == SelectSeq(speeds, LAMBDA v : 5 <= v /\ v <= 100)
    IN  IF real # <<>> /\ SumSeq(real) < 40 * Len(real)
        THEN [sum |-> SumSeq(real), cnt |-> Len(real)]
        ELSE NoMatch

\* the request notes the dict object it has just loaded from the global
Read(req) == [req EXCEPT !.reads = req.reads \cup {traffic_data.cycle}]

\* find_real_speed_for_segment returns: the maneuver's speed is settled
Settle(req, speed) ==
    [req EXCEPT !.speeds = Append(req.speeds, speed),
                !.m = req.m + 1,
                !.pc = IF req.m + 1 > Len(req.maneuvers) THEN "count" ELSE "seg_empty"]

\* proxy_route up to the routing engine's answer. maneuvers: for each
\* maneuver, whether one of its street names matches the arterial pattern.
RouteBegin ==
    /\ route_req.pc \in {"idle", "done"}
    /\ \E ok \in BOOLEAN, ut \in BOOLEAN,
          ms \in UNION {[1..k -> BOOLEAN] : k \in 0..MaxManeuvers} :
          route_req' = IF ok
                       THEN [IdleRoute EXCEPT !.pc = "check", !.use_traffic = ut,
                                              !.maneuvers = ms, !.m = 1]
                       ELSE [IdleRoute EXCEPT !.pc = "done", !.code = 500]
    /\ UNCHANGED <<traffic_data, new_traffic_data, updater>>

\* apply_real_traffic_to_response, line 204: not use_traffic or not traffic_data
RouteCheck ==
    /\ route_req.pc = "check"
    /\ route_req' =
          IF ~route_req.use_traffic
          THEN [route_req EXCEPT !.pc = "plain_count"]
          ELSE IF traffic_data.speeds = <<>>
          THEN [Read(route_req) EXCEPT !.pc = "plain_count"]
          ELSE [Read(route_req) EXCEPT
                   !.pc = IF route_req.maneuvers = <<>> THEN "count" ELSE "seg_empty"]
    /\ UNCHANGED <<traffic_data, new_traffic_data, updater>>

\* line 208: traffic_data_count = len(traffic_data) of the untouched answer
RoutePlainCount ==
    /\ route_req.pc = "plain_count"
    /\ route_req' = [Read(route_req) EXCEPT !.pc = "done", !.code = 200,
                                            !.count = Len(traffic_data.speeds)]
    /\ UNCHANGED <<traffic_data, new_traffic_data, updater>>

\* find_real_speed_for_segment, line 163: if not traffic_data
SegEmpty ==
    /\ route_req.pc = "seg_empty"
    /\ route_req' =
          IF traffic_data.speeds = <<>>
          THEN Settle(Read(route_req), NoMatch)
          ELSE [Read(route_req) EXCEPT
                   !.pc = IF route_req.maneuvers[route_req.m]
                          THEN "seg_items" ELSE "seg_nonempty"]
    /\ UNCHANGED <<traffic_data, new_traffic_data, updater>>

\* line 184: for osm_id, speed in traffic_data.items()
SegItems ==
    /\ route_req.pc = "seg_items"
    /\ route_req' =
          LET hit == FirstPositive(traffic_data.speeds)
          IN  IF hit # NoMatch
              THEN Settle(Read(route_req), hit)
              ELSE [Read(route_req) EXCEPT !.pc = "seg_nonempty"]
    /\ UNCHANGED <<traffic_data, new_traffic_data, updater>>

\* line 192: if traffic_data
SegNonEmpty ==
    /\ route_req.pc = "seg_nonempty"
    /\ route_req' =
          IF traffic_data.speeds = <<>>
          THEN Settle(Read(route_req), NoMatch)
          ELSE [Read(route_req) EXCEPT !.pc = "seg_values"]
    /\ UNCHANGED <<traffic_data, new_traffic_data, updater>>

\* line 193: traffic_data.values()
SegValues ==
    /\ route_req.pc = "seg_values"
    /\ route_req' = Settle(Read(route_req), FallbackAverage(traffic_data.speeds))
    /\ UNCHANGED <<traffic_data, new_traffic_data, updater>>

\* line 274: traffic_data_count = len(traffic_data); the answer is complete
RouteCount ==
    /\ route_req.pc = "count"
    /\ route_req' = [Read(route_req) EXCEPT !.pc = "done", !.code = 200,
                                            !.count = Len(traffic_data.speeds)]
    /\ UNCHANGED <<traffic_data, new_traffic_data, updater>>

InitTraffic ==
    /\ QuietDispatch
    /\ IdleLkh
    /\ IdleTraffic

NextTraffic ==
    \/ FetchBegin /\ UNCHANGED nonTrafficVars
    \/ FetchLink /\ UNCHANGED nonTrafficVars
    \/ FetchSwap /\ UNCHANGED nonTrafficVars
    \/ RouteBegin /\ UNCHANGED nonTrafficVars
    \/ RouteCheck /\ UNCHANGED nonTrafficVars
    \/ RoutePlainCount /\ UNCHANGED nonTrafficVars
    \/ SegEmpty /\ UNCHANGED nonTrafficVars
    \/ SegItems /\ UNCHANGED nonTrafficVars
    \/ SegNonEmpty /\ UNCHANGED nonTrafficVars
    \/ SegValues /\ UNCHANGED nonTrafficVars
    \/ RouteCount /\ UNCHANGED nonTrafficVars

SpecTraffic == InitTraffic /\ [][NextTraffic]_vars

----------------------------------------------------------------------------
(* The background worker as a thread that runs forever *)

\* TRAFFIC_UPDATE_INTERVAL as the environment may set it (default 300);
\* int() accepts a negative number.
Intervals == {-1, 0, 300}

\* a worker whose thread ends when a cycle raises
FetchRaiseStops ==
    /\ updater.pc = "fetch"
    /\ updater' = [updater EXCEPT !.pc = "dead", !.raised = TRUE]
    /\ UNCHANGED <<traffic_data, new_traffic_data, route_req>>

\* update_loop, lines 291-296: the first call of fetch_traffic_data, at once
WorkerFirst ==
    /\ updater.pc = "start"
    /\ new_traffic_data' = <<>>
    /\ updater' = [updater EXCEPT !.pc = "fetch", !.i = 1, !.cycle = 1]
    /\ UNCHANGED <<traffic_data, route_req>>

\* update_loop, lines 299-304: time.sleep(self.traffic_update_interval), then
\* the next call of fetch_traffic_data. time.sleep raises ValueError for a
\* negative length; the except clause logs it and the loop starts over. The
\* cycle number is kept modulo MaxCycles.
WorkerSleep ==
    /\ updater.pc = "sleep"
    /\ IF updater.interval < 0
       THEN /\ updater' = [updater EXCEPT !.raised = TRUE]
            /\ UNCHANGED new_traffic_data
       ELSE /\ new_traffic_data' = <<>>
            /\ updater' = [updater EXCEPT !.pc = "fetch", !.i = 1,
                                          !.cycle = (updater.cycle % MaxCycles) + 1]
    /\ UNCHANGED <<traffic_data, route_req>>

\* an exception that leaves fetch_traffic_data: caught by update_loop
\* (lines 295-296, 305-306), the global table stays, the loop goes on
FetchRaise ==
    /\ updater.pc = "fetch"
    /\ updater' = [updater EXCEPT !.pc = "sleep", !.raised = TRUE]
    /\ UNCHANGED <<traffic_data, new_traffic_data, route_req>>

\* proxy = TrafficProxy(): the one thread start_traffic_updater starts
InitWorker ==
    /\ QuietDispatch
    /\ IdleLkh
    /\ traffic_data = EmptyTable
    /\ new_traffic_data = <<>>
    /\ updater \in {[pc |-> "start", i |-> 0, cycle |-> 0, interval |-> v, raised |-> FALSE] :
                       v \in Intervals}
    /\ route_req = IdleRoute
    /\ last_call = NoCall
    /\ inflight = <<>>

NextWorker ==
    \/ WorkerFirst /\ UNCHANGED nonTrafficVars
    \/ WorkerSleep /\ UNCHANGED nonTrafficVars
    \/ FetchLink /\ UNCHANGED nonTrafficVars
    \/ FetchSwap /\ UNCHANGED nonTrafficVars
    \/ FetchRaise /\ UNCHANGED nonTrafficVars

\* The thread is never blocked for good: every request of a cycle carries
\* timeout=5 and the sleep is finite, so a step that can be taken is taken.
SpecWorker == InitWorker /\ [][NextWorker]_vars /\ WF_vars(NextWorker)

----------------------------------------------------------------------------
(* The traffic proxy's stateless endpoints and their clients *)

MaxLocations == 2

\* JSON null
JsonNull == [null |-> TRUE]

IsNull(x) == "null" \in DOMAIN x

\* The routing engine's time and distance for the pair (i, j), 0-based.
EngineCell(i, j) ==
    [time |-> IF i = j THEN 0 ELSE 10 * (i + 1) + j,
     distance |-> IF i = j THEN 0 ELSE i + j + 1]

\* What the engine may answer for the pair (i, j): the cell, the cell without
\* its time, or null.
CellsAt(i, j) == {EngineCell(i, j), [distance |-> EngineCell(i, j).distance], JsonNull}

RECURSIVE RowsAt(_, _)
\* the first k cells of source i's row
RowsAt(i, k) ==
    IF k = 0 THEN {<<>>}
    ELSE {Append(r, c) : r \in RowsAt(i, k - 1), c \in CellsAt(i, k - 1)}

RECURSIVE SourcesToTargets(_, _)
\* the first k rows of an answer for n locations: each a list of n cells or null
SourcesToTargets(n, k) ==
    IF k = 0 THEN {<<>>}
    ELSE {Append(m, row) : m \in SourcesToTargets(n, k - 1),
                           row \in {[cells |-> r] : r \in RowsAt(k - 1, n)} \cup {JsonNull}}

\* requests.post raised: no answer
NoAnswer == [status |-> 0, body |-> [error |-> "unreachable"]]

\* What the engine does with a sources_to_targets request for n locations:
\* 200 with a full answer, 200 without the key, 400, or no answer.
EngineMatrixAnswers(n) ==
    {[status |-> 200, body |-> [sources_to_targets |-> m]] : m \in SourcesToTargets(n, n)}
    \cup {[status |-> 200, body |-> [error |-> "engine"]],
          [status |-> 400, body |-> [error |-> "engine"]],
          NoAnswer}

\* jsonify({"error": str(e)}), 500
ProxyError == [status |-> 500, body |-> [error |-> "proxy"]]

\* proxy_matrix_endpoint: the name self is not defined in the function, so
\* the call of apply_traffic_to_matrix raises NameError.
ProxyMatrixEndpoint(use_traffic, table, engine) ==
    IF engine = NoAnswer THEN ProxyError
    ELSE IF engine.status = 200
    THEN IF use_traffic /\ table.speeds # <<>> THEN ProxyError ELSE engine
    ELSE engine

\* time_matrix[i, j] = 9999999
Penalty == 9999999

\* np.full((n, n), -1.0)
Unfilled == -1

\* (None, None)
NoMatrix == [ok |-> FALSE]

max_retries == 3

\* target_data and target_data.get('time') is not None and
\* target_data.get('distance') is not None
Routed(cell) == ~IsNull(cell) /\ "time" \in DOMAIN cell /\ "distance" \in DOMAIN cell

\* a parse that skips the pairs without a route
ParseMatrixSkipNull(n, data) ==
    LET hasKey == "sources_to_targets" \in DOMAIN data
        rows   == IF hasKey THEN data.sources_to_targets ELSE <<>>
        found  == {ij \in (1..Len(rows)) \X (1..n) :
                      ~IsNull(rows[ij[1]]) /\ Routed(rows[ij[1]].cells[ij[2]])}
        at(i, j) == IF <<i, j>> \in found THEN rows[i].cells[j].time ELSE Unfilled
    IN  IF found = {} THEN NoMatrix
        ELSE [ok |-> TRUE, time_matrix |-> [i \in 1..n |-> [j \in 1..n |-> at(i, j)]]]

\* The parse of one 200 answer in get_time_distance_matrix (lines 72-104).
ParseMatrix(n, data) ==
    LET hasKey == "sources_to_targets" \in DOMAIN data
        rows   == IF hasKey THEN data.sources_to_targets ELSE <<>>
        found  == {ij \in (1..Len(rows)) \X (1..n) :
                      ~IsNull(rows[ij[1]]) /\ Routed(rows[ij[1]].cells[ij[2]])}
        at(i, j) == IF i > Len(rows) THEN Unfilled
                    ELSE IF IsNull(rows[i]) THEN Penalty
                    ELSE IF Routed(rows[i].cells[j]) THEN rows[i].cells[j].time
                    ELSE Penalty
    IN  IF found = {} THEN NoMatrix
        ELSE [ok |-> TRUE, time_matrix |-> [i \in 1..n |-> [j \in 1..n |-> at(i, j)]]]

\* get_time_distance_matrix(locations, use_traffic=True) against the proxy:
\* the first `failures` attempts find the engine without an answer, the
\* later ones get `engine`. raise_for_status turns a non-200 answer into a
\* retry; after max_retries attempts the result is (None, None).
GetTimeDistanceMatrix(n, table, failures, engine) ==
    LET response == ProxyMatrixEndpoint(TRUE, table, engine)
    IN  IF n < 2 THEN NoMatrix
        ELSE IF failures >= max_retries THEN NoMatrix
        ELSE IF response.status # 200 THEN NoMatrix
        ELSE ParseMatrix(n, response.body)

\* The calls of the model, as received.
MatrixRequests ==
    UNION {{[op |-> "matrix", pc |-> "received", n |-> n, use_traffic |-> ut, engine |-> e] :
               ut \in BOOLEAN, e \in EngineMatrixAnswers(n)} : n \in 2..MaxLocations}

MatrixClientCalls ==
    UNION {{[op |-> "get_time_distance_matrix", pc |-> "received", n |-> n, failures |-> f,
             engine |-> e] :
               f \in 0..max_retries,
               e \in IF n < 2 THEN {NoAnswer} ELSE EngineMatrixAnswers(n)} :
           n \in 1..MaxLocations}

MaxLegs == 2

\* The maneuvers of an engine answer: time in seconds, length in km, and
\* whether one of the street names matches the arterial pattern. An arrival
\* has neither time nor length; a maneuver shorter than the length's
\* resolution has length 0 and a positive time.
Maneuvers ==
    {[time |-> 0, length |-> 0, arterial |-> FALSE]}
    \cup {[time |-> 1, length |-> 0, arterial |-> a] : a \in BOOLEAN}
    \cup {[time |-> 100, length |-> 1, arterial |-> a] : a \in BOOLEAN}

\* the sum of the time fields of a list of maneuvers or of leg summaries
SumTimes(items) == SumSeq([i \in 1..Len(items) |-> items[i].time])

\* The engine's legs and trips: a summary time is the sum of its parts.
Legs ==
    {[summary |-> [time |-> SumTimes(ms)], maneuvers |-> ms] :
        ms \in UNION {[1..k -> Maneuvers] : k \in 0..MaxManeuvers}}

Trips ==
    {[summary |-> [time |-> SumSeq([i \in 1..Len(ls) |-> ls[i].summary.time])], legs |-> ls] :
        ls \in UNION {[1..k -> Legs] : k \in 1..MaxLegs}}

\* find_real_speed_for_segment against one table
FindRealSpeed(arterial, speeds) ==
    IF speeds = <<>> THEN NoMatch
    ELSE IF arterial /\ FirstPositive(speeds) # NoMatch THEN FirstPositive(speeds)
    ELSE FallbackAverage(speeds)

\* a recalculation in minutes
NewTimeMinutes(length, speed) == (length * 60 * speed.cnt) \div speed.sum

\* new_time = (segment_length / real_speed_kmh) * 3600
NewTime(length, speed) == (length * 3600 * speed.cnt) \div speed.sum

\* the body of the loop over a leg's maneuvers
ApplyToManeuver(m, speeds) ==
    LET real_speed_kmh == FindRealSpeed(m.arterial, speeds)
    IN  IF real_speed_kmh # NoMatch /\ real_speed_kmh.sum > 0 /\ m.length > 0
        THEN [time |-> NewTime(m.length, real_speed_kmh), length |-> m.length,
              arterial |-> m.arterial, original_time |-> m.time,
              real_speed_applied |-> real_speed_kmh]
        ELSE m

\* the body of the loop over the trip's legs
ApplyToLeg(leg, speeds) ==
    LET ms == [i \in 1..Len(leg.maneuvers) |-> ApplyToManeuver(leg.maneuvers[i], speeds)]
    IN  [summary |-> [time |-> SumTimes(ms), original_time |-> SumTimes(leg.maneuvers)],
         maneuvers |-> ms]

\* apply_real_traffic_to_response on an answer that has a trip
ApplyRealTrafficToResponse(trip, use_traffic, table) ==
    IF ~use_traffic \/ table.speeds = <<>> THEN trip
    ELSE LET ls == [i \in 1..Len(trip.legs) |-> ApplyToLeg(trip.legs[i], table.speeds)]
             total_new_time == SumSeq([i \in 1..Len(ls) |-> ls[i].summary.time])
             total_original_time ==
                 SumSeq([i \in 1..Len(ls) |-> ls[i].summary.original_time])
         IN  [summary |-> [time |-> total_new_time, original_time |-> total_original_time,
                           traffic_time |-> total_new_time],
              legs |-> ls]

RouteRequests ==
    {[op |-> "route", pc |-> "received", use_traffic |-> ut, trip |-> t] :
        ut \in BOOLEAN, t \in Trips}

\* The text parameter of /search: absent or empty, an address naming a
\* district of the table, or a text naming none.
SearchTexts == {"", "gangnam_gu yeoksam", "somewhere"}

\* `district in address` for some district of district_coords
NamesDistrict(text) == text = "gangnam_gu yeoksam"

\* What a geocoder API does with one query: a first document, no document,
\* a document without coordinates, a non-200 status, or no answer in time.
GeocoderOutcomes == {"hit", "empty", "malformed", "non200", "timeout"}

\* confidences in hundredths
AddressHit == 95
KeywordHit == 85
DistrictFallback == 50
CityFallback == 10

Feature(confidence, method) == [confidence |-> confidence, geocoding_method |-> method]

\* get_default_coordinates_by_district
DefaultCoordinatesByDistrict(text) ==
    IF NamesDistrict(text) THEN DistrictFallback ELSE CityFallback

\* kakao_geocoding: the confidence it returns
KakaoGeocoding(text, address, keyword) ==
    IF address \in {"timeout", "malformed"} THEN DefaultCoordinatesByDistrict(text)
    ELSE IF address = "hit" THEN AddressHit
    ELSE IF keyword \in {"timeout", "malformed"} THEN DefaultCoordinatesByDistrict(text)
    ELSE IF keyword = "hit" THEN KeywordHit
    ELSE DefaultCoordinatesByDistrict(text)

\* GET /search
KakaoGeocodingSearch(text, address, keyword) ==
    IF text = "" THEN [status |-> 400, features |-> <<>>]
    ELSE [status |-> 200,
          features |-> <<Feature(KakaoGeocoding(text, address, keyword), "kakao")>>]

SearchRequests ==
    {[op |-> "search", pc |-> "received", text |-> t, address |-> a, keyword |-> k] :
        t \in SearchTexts, a \in GeocoderOutcomes, k \in GeocoderOutcomes}

\* POST /matrix
ProxyMatrix ==
    /\ last_call.op = "matrix" /\ last_call.pc = "received"
    /\ last_call' = [op |-> "matrix", pc |-> "done", n |-> last_call.n,
                     use_traffic |-> last_call.use_traffic, engine |-> last_call.engine,
                     response |-> ProxyMatrixEndpoint(last_call.use_traffic, traffic_data,
                                                      last_call.engine)]
    /\ UNCHANGED <<traffic_data, new_traffic_data, updater, route_req>>

\* a dispatcher's call of get_time_distance_matrix
MatrixClient ==
    /\ last_call.op = "get_time_distance_matrix" /\ last_call.pc = "received"
    /\ last_call' = [op |-> "get_time_distance_matrix", pc |-> "done", n |-> last_call.n,
                     failures |-> last_call.failures, engine |-> last_call.engine,
                     result |-> GetTimeDistanceMatrix(last_call.n, traffic_data,
                                                      last_call.failures, last_call.engine)]
    /\ UNCHANGED <<traffic_data, new_traffic_data, updater, route_req>>

\* POST /route while no refresh of the table is under way, the engine having
\* answered 200 with a trip
ProxyRoute ==
    /\ last_call.op = "route" /\ last_call.pc = "received"
    /\ last_call' = [op |-> "route", pc |-> "done", use_traffic |-> last_call.use_traffic,
                     trip |-> last_call.trip,
                     response |-> ApplyRealTrafficToResponse(last_call.trip,
                                                             last_call.use_traffic,
                                                             traffic_data)]
    /\ UNCHANGED <<traffic_data, new_traffic_data, updater, route_req>>

\* GET /search
Search ==
    /\ last_call.op = "search" /\ last_call.pc = "received"
    /\ last_call' = [op |-> "search", pc |-> "done", text |-> last_call.text,
                     address |-> last_call.address, keyword |-> last_call.keyword,
                     response |-> KakaoGeocodingSearch(last_call.text, last_call.address,
                                                       last_call.keyword)]
    /\ UNCHANGED <<traffic_data, new_traffic_data, updater, route_req>>

\* The tables a finished refresh may have left.
Tables ==
    {EmptyTable}
    \cup {[cycle |-> 1, speeds |-> sp] : sp \in UNION {[1..k -> Speeds] : k \in 0..NumLinks}}

InitProxy ==
    /\ QuietDispatch
    /\ IdleLkh
    /\ traffic_data \in Tables
    /\ new_traffic_data = <<>>
    /\ updater = [pc |-> "sleep", i |-> 0, cycle |-> 0]
    /\ route_req = IdleRoute
    /\ inflight = <<>>
    /\ last_call \in MatrixRequests \cup MatrixClientCalls \cup RouteRequests
                        \cup SearchRequests

nonProxyVars == <<dispatchVars, lkhVars, authVars, flightVars>>

NextProxy ==
    \/ ProxyMatrix /\ UNCHANGED nonProxyVars
    \/ MatrixClient /\ UNCHANGED nonProxyVars
    \/ ProxyRoute /\ UNCHANGED nonProxyVars
    \/ Search /\ UNCHANGED nonProxyVars

SpecProxy == InitProxy /\ [][NextProxy]_vars

----------------------------------------------------------------------------
(* The retry loop of the routing engine's clients *)

retry_delay == 2

\* What one requests.post(...) / raise_for_status() / response.json() of an
\* attempt meets: a timeout, a non-2xx status or a refused connection, a
\* body that is not JSON, any other exception, a JSON answer without
\* content (no 'trip'; found_routes == 0), or a full answer.
EngineOutcomes == {"timeout", "http_error", "non_json", "unexpected", "empty", "ok"}

\* The class of the exception response.json() raises on a non-JSON body.
\* requests is not pinned: from 2.27 on it raises
\* requests.exceptions.JSONDecodeError, a RequestException (and a
\* json.JSONDecodeError); before, the json module's own JSONDecodeError.
JsonErrorClasses == {"RequestException", "JSONDecodeError"}

\* The except clause an outcome ends in, in the order the clauses are
\* written: Timeout, RequestException, json.JSONDecodeError, Exception.
ExceptClause(outcome, json_error) ==
    CASE outcome = "timeout"    -> "Timeout"
      [] outcome = "http_error" -> "RequestException"
      [] outcome = "non_json"   -> json_error
      [] outcome = "unexpected" -> "Exception"
      [] OTHER                  -> "none"

ValhallaCalls ==
    {[op |-> "valhalla_call", fn |-> f, json_error |-> c, pc |-> "attempting",
      attempt |-> 0, log |-> <<>>, slept |-> 0, result |-> "pending"] :
        f \in {"get_turn_by_turn_route", "get_time_distance_matrix"},
        c \in JsonErrorClasses}

\* One turn of `for attempt in range(max_retries)` up to the pause.
Attempt ==
    /\ last_call.op = "valhalla_call" /\ last_call.pc = "attempting"
    /\ \E outcome \in EngineOutcomes :
          LET clause == ExceptClause(outcome, last_call.json_error)
              after  == [last_call EXCEPT !.log = Append(last_call.log, outcome)]
          IN  last_call' =
                 IF outcome = "ok"
                 THEN [after EXCEPT !.pc = "done", !.result = "data"]
                 ELSE IF clause \in {"Timeout", "RequestException"}
                         /\ last_call.attempt < max_retries - 1
                 THEN [after EXCEPT !.pc = "sleeping"]
                 ELSE [after EXCEPT !.pc = "done", !.result = "None"]

\* time.sleep(retry_delay) and the next turn of the loop
Pause ==
    /\ last_call.op = "valhalla_call" /\ last_call.pc = "sleeping"
    /\ last_call' = [last_call EXCEPT !.pc = "attempting",
                                      !.attempt = last_call.attempt + 1,
                                      !.slept = last_call.slept + retry_delay]

InitRetry ==
    /\ QuietDispatch
    /\ IdleLkh
    /\ traffic_data = EmptyTable
    /\ new_traffic_data = <<>>
    /\ updater = [pc |-> "sleep", i |-> 0, cycle |-> 0]
    /\ route_req = IdleRoute
    /\ inflight = <<>>
    /\ last_call \in ValhallaCalls

NextRetry ==
    \/ Attempt /\ UNCHANGED <<nonProxyVars, trafficVars>>
    \/ Pause /\ UNCHANGED <<nonProxyVars, trafficVars>>

SpecRetry == InitRetry /\ [][NextRetry]_vars

----------------------------------------------------------------------------
(* The dispatchers' choice of the next stop from a tour *)

\* The stop (1-based index into the pending list) /pickup/next answers with
\* for a 200 answer of the adapter: the tour's choice, the first stop when the
\* tour gives none, 0 when the request ends in 500.
PickupStopIndex(tour, n) ==
    LET choice == PickupTourChoice(tour, n)
    IN  IF choice >= 1 THEN choice ELSE IF choice = 0 THEN 1 ELSE 0

\* The stop /delivery/next answers with for a 200 answer of the adapter.
DeliveryStopIndex(tour, n) == DeliveryTourChoice([kind |-> "ok", tour |-> tour], n + 1)

\* A tour received for n pending stops, by either dispatcher.
\* /pickup/next asks for a tour from two pending stops on, /delivery/next from one.
ChoiceCalls ==
    {[op |-> "pickup_choice", pc |-> "received", n |-> n, tour |-> t] :
        n \in 2..NumParcels, t \in Tours}
    \cup {[op |-> "delivery_choice", pc |-> "received", n |-> n, tour |-> t] :
        n \in 1..NumParcels, t \in Tours}

\* get_next_destination, lines 857-876
PickupChoice ==
    /\ last_call.op = "pickup_choice" /\ last_call.pc = "received"
    /\ last_call' = [op |-> "pickup_choice", pc |-> "done", n |-> last_call.n,
                     tour |-> last_call.tour,
                     stop |-> PickupStopIndex(last_call.tour, last_call.n)]

\* calculate_optimal_next_destination, lines 609-626
DeliveryChoice ==
    /\ last_call.op = "delivery_choice" /\ last_call.pc = "received"
    /\ last_call' = [op |-> "delivery_choice", pc |-> "done", n |-> last_call.n,
                     tour |-> last_call.tour,
                     stop |-> DeliveryStopIndex(last_call.tour, last_call.n)]

InitChoice ==
    /\ QuietDispatch
    /\ IdleLkh
    /\ traffic_data = EmptyTable
    /\ new_traffic_data = <<>>
    /\ updater = [pc |-> "sleep", i |-> 0, cycle |-> 0]
    /\ route_req = IdleRoute
    /\ inflight = <<>>
    /\ last_call \in ChoiceCalls

NextChoice ==
    \/ PickupChoice /\ UNCHANGED <<dispatchVars, lkhVars, trafficVars, authVars, flightVars>>
    \/ DeliveryChoice /\ UNCHANGED <<dispatchVars, lkhVars, trafficVars, authVars, flightVars>>

SpecChoice == InitChoice /\ [][NextChoice]_vars

----------------------------------------------------------------------------
(* Properties of the dispatchers *)

\* position of a status in the lifecycle
Rank(st) == CHOOSE i \in 1..Len(Statuses) : Statuses[i] = st

\* the request a step serves: resp' is the response the step produces, and
\* the clock stands still in every step but Tick
Served(op) == resp'.op = op /\ now' = now

\* C1: no operation ever moves a parcel back to an earlier status of
\* PICKUP_PENDING -> PICKUP_COMPLETED -> DELIVERY_PENDING -> DELIVERY_COMPLETED.
C1_StatusNeverRegresses ==
    [][\A p \in Parcels : Rank(parcel'[p].status) >= Rank(parcel[p].status)]_vars

\* C2: a completion request by a driver who is not the parcel's assigned
\* driver on that side answers 403 and leaves the row unchanged, and a parcel
\* becomes PICKUP_COMPLETED / DELIVERY_COMPLETED only through a completion
\* request of the driver assigned to it on that side.
C2_OnlyOwnerCompletes ==
    [][/\ Served("pickup_complete") /\ parcel[resp'.parcel].pickupDriverId # resp'.driver
          => resp'.code = 403 /\ parcel' = parcel
       /\ Served("delivery_complete") /\ parcel[resp'.parcel].deliveryDriverId # resp'.driver
          => resp'.code = 403 /\ parcel' = parcel
       /\ \A p \in Parcels :
             /\ parcel[p].status # "PICKUP_COMPLETED" /\ parcel'[p].status = "PICKUP_COMPLETED"
                => /\ Served("pickup_complete") /\ resp'.parcel = p
                   /\ resp'.driver = parcel[p].pickupDriverId
             /\ parcel[p].status # "DELIVERY_COMPLETED"
                   /\ parcel'[p].status = "DELIVERY_COMPLETED"
                => /\ Served("delivery_complete") /\ resp'.parcel = p
                   /\ resp'.driver = parcel[p].deliveryDriverId
      ]_vars

\* C2 witness: another driver's completion request was refused while the
\* parcel was pending for its own driver.
C2_Witness ==
    /\ resp.op = "pickup_complete" /\ resp.code = 403
    /\ parcel[resp.parcel].pickupDriverId \notin {NoDriver, resp.driver}
    /\ parcel[resp.parcel].status = "PICKUP_PENDING"

\* C3: the stop /pickup/next answers with is, at the request's store query,
\* PICKUP_PENDING, assigned to the caller and scheduled for today or earlier.
C3_NextIsDuePendingOwn ==
    [][Served("pickup_next") /\ resp'.next # NoParcel
       => LET row == parcel[resp'.next]
          IN  /\ row.status = "PICKUP_PENDING"
              /\ row.pickupDriverId = resp'.driver
              /\ \/ row.pickupScheduledDate = <<>>
                 \/ row.pickupScheduledDate[1] <= Today
      ]_vars

\* C3 witness: the driver is offered a stop while another of their pending
\* parcels is scheduled for tomorrow.
C3_Witness ==
    /\ resp.op = "pickup_next" /\ resp.next # NoParcel
    /\ parcel[resp.next].status = "PICKUP_PENDING"
    /\ \E q \in Parcels \ {resp.next} :
          /\ parcel[q].pickupDriverId = resp.driver
          /\ parcel[q].status = "PICKUP_PENDING"
          /\ parcel[q].pickupScheduledDate = <<Today + 1>>

\* C4: an accepted webhook schedules the pickup for tomorrow from 12:00:00 on
\* and for today before 12:00; the parcel ends PICKUP_PENDING with the driver
\* of the district table.
C4_CutoffSchedulesTomorrow ==
    [][Served("webhook") /\ resp'.status \in {"success", "scheduled_tomorrow"}
       => LET p == resp'.parcel
          IN  /\ parcel'[p].status = "PICKUP_PENDING"
              /\ parcel'[p].pickupDriverId # NoDriver
              /\ \E apiUp \in BOOLEAN :
                    parcel'[p].pickupDriverId =
                        PickupDriverOf(ExtractDistrict(parcel[p].recipientAddr, apiUp))
              /\ parcel'[p].pickupScheduledDate =
                    IF now.hour >= PICKUP_CUTOFF_TIME THEN <<Today + 1>> ELSE <<Today>>
      ]_vars

\* C4 witness: a webhook received exactly at the cutoff hour was accepted.
C4_Witness ==
    /\ resp.op = "webhook" /\ resp.status = "scheduled_tomorrow"
    /\ now.hour = PICKUP_CUTOFF_TIME
    /\ parcel[resp.parcel].pickupScheduledDate = <<Today + 1>>
    /\ parcel[resp.parcel].status = "PICKUP_PENDING"

\* C5: a webhook for a parcel that already has a pickup driver answers
\* already_processed and changes no column of the row, at any time of day.
C5_WebhookIdempotent ==
    [][Served("webhook") /\ ParcelFound(resp'.parcel)
          /\ parcel[resp'.parcel].pickupDriverId # NoDriver
       => resp'.status = "already_processed" /\ parcel' = parcel
      ]_vars

\* C6: /pickup/complete by the assigned driver for a parcel already past
\* PICKUP_PENDING answers 4xx and changes nothing.
C6_SecondCompleteRejected ==
    [][Served("pickup_complete") /\ ParcelFound(resp'.parcel)
          /\ parcel[resp'.parcel].pickupDriverId = resp'.driver
          /\ parcel[resp'.parcel].status # "PICKUP_PENDING"
       => resp'.code \in 400..499 /\ parcel' = parcel
      ]_vars

\* C7: a /pickup/next call by d that finds zero pending stops while the hub
\* flag of d is set answers at_hub; a call that finds at least one pending
\* stop leaves the flag of d cleared. (What the call finds is what its store
\* query returned: resp'.remaining stops.)
C7_HubFlag ==
    [][Served("pickup_next") /\ resp'.driver \in PICKUP_DRIVERS
          /\ ~BeforePickupStart(now.hour)
       => LET d == resp'.driver
          IN  /\ resp'.remaining = 0 /\ driver_hub_status[d]
                 => resp'.status = "at_hub" /\ resp'.code = 200
              /\ resp'.remaining >= 1 => ~driver_hub_status'[d]
      ]_vars

\* C7 witness: the driver confirmed hub arrival and the following
\* /pickup/next, with nothing pending, answered at_hub.
C7_Witness ==
    /\ resp.op = "pickup_next" /\ resp.status = "at_hub"
    /\ driver_hub_status[resp.driver]
    /\ PendingPickups(resp.driver) = <<>>

\* a tour that visits each of 0..n-1 once, starting at 0
IsTourFromZero(tour, n) ==
    /\ Len(tour) = n
    /\ {tour[i] : i \in 1..Len(tour)} = 0..(n - 1)
    /\ tour[1] = 0

\* C9: every 200 response of /solve for an N x N matrix (N >= 1) carries a
\* permutation of 0..N-1 starting with 0; for N = 1 it is [0] with length 0,
\* for N = 2 it is [0, 1] with length M[0][1].
C9_SolveTourIsPermutation ==
    lkh_req.pc = "done" /\ lkh_req.n >= 1 /\ lkh_resp.code = 200
    => /\ IsTourFromZero(lkh_resp.tour, lkh_req.n)
       /\ lkh_req.n = 1 => lkh_resp.tour = <<0>> /\ lkh_resp.tour_length = 0
       /\ lkh_req.n = 2 => /\ lkh_resp.tour = <<0, 1>>
                           /\ lkh_resp.tour_length = Weight(lkh_req.matrix, 0, 1)

\* a request whose solver run fails or leaves no valid tour
SolveFailureCase(req) ==
    /\ req.n >= 3
    /\ \/ req.run # "ok"
       \/ ~req.file.exists
       \/ TourSectionStart(req.file.lines) = -1
       \/ ~TourValid(ParseTour(req.file.lines, TourSectionStart(req.file.lines)), req.n)

\* C10: /solve answers 5xx, never a tour, on solver timeout, absent binary,
\* non-zero exit, missing output file, missing or empty TOUR_SECTION, and a
\* parsed tour whose length is not N or whose node set is not 0..N-1.
C10_SolveFailureIs5xx ==
    lkh_req.pc = "done" /\ SolveFailureCase(lkh_req)
    => lkh_resp.code \in 500..599 /\ lkh_resp.tour = <<>>

\* C8: everything a /route request reads from the speed table comes from
\* the table of one single completed cycle, and the table readers load is
\* never the one still being filled.
C8_RouteReadsOneCycle ==
    /\ route_req.pc = "done" => Cardinality(route_req.reads) <= 1
    /\ updater.pc = "fetch" => traffic_data.cycle < updater.cycle

\* C11: with two or more pending stops, /pickup/next and /delivery/next
\* never end in 5xx because of the matrix or the TSP step, and when that step
\* fails (matrix unavailable, adapter unreachable or answering non-200) the
\* answer is 200 with the first pending stop in query order.
C11_TspFailureFallsBack ==
    [][/\ Served("pickup_next") /\ resp'.remaining >= 2
          => /\ resp'.code = 200
             /\ resp'.tsp \in {"matrix_failed", "unreachable", "non200"}
                => resp'.next = PendingPickups(resp'.driver)[1]
       /\ Served("delivery_next") /\ resp'.remaining >= 2
          => /\ resp'.code = 200
             /\ resp'.tsp \in {"matrix_failed", "unreachable", "non200"}
                => resp'.next = PendingDeliveries(resp'.driver)[1]
      ]_vars

\* C12: in every reachable state each parcel's pickupDriverId is unset or in
\* 1..5 and its deliveryDriverId is unset or in 6..10; and a step that writes
\* a driver id writes the table's entry for a district the parcel's address
\* resolves to, so nothing is written for a district missing from the table.
DriverIdsInRange ==
    \A p \in Parcels :
        /\ parcel[p].pickupDriverId \in {NoDriver} \cup PICKUP_DRIVERS
        /\ parcel[p].deliveryDriverId \in {NoDriver} \cup DELIVERY_DRIVERS

DriverWritesFromTable ==
    \A p \in Parcels :
        /\ parcel'[p].pickupDriverId # parcel[p].pickupDriverId
           => \E apiUp \in BOOLEAN :
                 LET district == ExtractDistrict(parcel[p].recipientAddr, apiUp)
                 IN  /\ PickupDriverOf(district) # NoDriver
                     /\ parcel'[p].pickupDriverId = PickupDriverOf(district)
        /\ parcel'[p].deliveryDriverId # parcel[p].deliveryDriverId
           => \E apiUp \in BOOLEAN :
                 LET district == ExtractDistrict(parcel[p].recipientAddr, apiUp)
                 IN  /\ DeliveryDriverOf(district) # NoDriver
                     /\ parcel'[p].deliveryDriverId = DeliveryDriverOf(district)

C12_DriverIdsFromTable == []DriverIdsInRange /\ [][DriverWritesFromTable]_vars

\* C12 witness: one parcel carries a pickup driver and a delivery driver from
\* the tables, and a webhook for a parcel whose district is in no table has
\* just been refused, leaving that parcel without a driver.
C12_Witness ==
    /\ \E p \in Parcels : /\ parcel[p].pickupDriverId \in PICKUP_DRIVERS
                          /\ parcel[p].deliveryDriverId \in DELIVERY_DRIVERS
    /\ resp.op = "webhook" /\ resp.code = 500
    /\ resp.parcel \in Parcels
    /\ parcel[resp.parcel].pickupDriverId = NoDriver
    /\ \A apiUp \in BOOLEAN :
          PickupDriverOf(ExtractDistrict(parcel[resp.parcel].recipientAddr, apiUp)) = NoDriver

\* C13: in every reachable state a parcel whose deliveryDriverId is set is
\* DELIVERY_PENDING or DELIVERY_COMPLETED.
C13_DeliveryDriverOnlyInDelivery ==
    \A p \in Parcels :
        parcel[p].deliveryDriverId # NoDriver
        => parcel[p].status \in {"DELIVERY_PENDING", "DELIVERY_COMPLETED"}

\* C14: in every reachable state a parcel whose pickupCompletedAt is set is
\* PICKUP_COMPLETED, DELIVERY_PENDING or DELIVERY_COMPLETED.
C14_CompletedAtImpliesCompleted ==
    \A p \in Parcels :
        parcel[p].pickupCompletedAt # <<>>
        => parcel[p].status \in {"PICKUP_COMPLETED", "DELIVERY_PENDING", "DELIVERY_COMPLETED"}

\* The PICKUP_PENDING parcels due today or earlier, and the parcels whose
\* pickup was completed today and that are still PICKUP_COMPLETED.
DuePending ==
    {p \in Parcels : /\ parcel[p].status = "PICKUP_PENDING"
                     /\ ~parcel[p].isDeleted
                     /\ \/ parcel[p].pickupScheduledDate = <<>>
                        \/ parcel[p].pickupScheduledDate[1] <= Today}

PickedUpToday ==
    {p \in Parcels : /\ parcel[p].status = "PICKUP_COMPLETED"
                     /\ ~parcel[p].isDeleted
                     /\ IsToday(parcel[p].pickupCompletedAt)}

\* /pickup/all-completed neither calls the delivery service nor changes the store
TriggersNothing == resp'.calls = {} /\ parcel' = parcel

\* /pickup/all-completed ran /delivery/import and then /delivery/assign, and
\* reports both of their status codes
TriggersBoth ==
    /\ resp'.code = 200 /\ resp'.status = "completed"
    /\ resp'.calls = {"import", "assign"}
    /\ \E up \in SUBSET Parcels, ok1 \in SUBSET Parcels, ok2 \in SUBSET Parcels :
          parcel' = Assigned(Imported(parcel, ok1), up, ok2)

\* C15 as stated: a /pickup/all-completed call whose counting queries answer
\* runs import then assign and reports completed=true with both statuses
\* exactly when no due parcel is pending and a pickup was completed today;
\* with a due parcel pending it reports completed=false with the remaining
\* count and triggers nothing; with none pending and none completed it
\* reports completed=true and triggers nothing.
C15_HandoffExactlyWhenDone ==
    [][Served("all_completed") /\ resp'.status # "error"
       => /\ DuePending # {}
             => /\ resp'.code = 200 /\ resp'.status = "not_completed"
                /\ resp'.remaining = Cardinality(DuePending)
                /\ TriggersNothing
          /\ DuePending = {} /\ PickedUpToday # {} => TriggersBoth
          /\ DuePending = {} /\ PickedUpToday = {}
             => /\ resp'.code = 200 /\ resp'.status = "completed"
                /\ TriggersNothing
      ]_vars

\* C15 amended: as C15, except that when a call to the delivery service
\* raises, the answer is 500 with completed=true and no downstream status,
\* import has run at most once and assign has not run.
C15_HandoffUnlessDownstreamFails ==
    [][Served("all_completed") /\ resp'.status # "error"
       => /\ DuePending # {}
             => /\ resp'.code = 200 /\ resp'.status = "not_completed"
                /\ resp'.remaining = Cardinality(DuePending)
                /\ TriggersNothing
          /\ DuePending = {} /\ PickedUpToday # {}
             => \/ TriggersBoth
                \/ /\ resp'.code = 500 /\ resp'.status = "completed"
                   /\ "import" \in resp'.calls
                   /\ \E ok \in SUBSET Parcels : parcel' = Imported(parcel, ok)
          /\ DuePending = {} /\ PickedUpToday = {}
             => /\ resp'.code = 200 /\ resp'.status = "completed"
                /\ TriggersNothing
      ]_vars

\* C15 witness: /pickup/all-completed has answered completed=true with both
\* downstream statuses, and a parcel it handed over is DELIVERY_PENDING with
\* a delivery driver.
C15_Witness ==
    /\ resp.op = "all_completed" /\ resp.code = 200
    /\ resp.calls = {"import", "assign"}
    /\ \E p \in Parcels : /\ parcel[p].status = "DELIVERY_PENDING"
                          /\ parcel[p].deliveryDriverId \in DELIVERY_DRIVERS

\* The parcels /delivery/import is to convert: not deleted, PICKUP_COMPLETED,
\* pickup completed today, no delivery driver.
ImportEligible ==
    {p \in Parcels : /\ ~parcel[p].isDeleted
                     /\ parcel[p].status = "PICKUP_COMPLETED"
                     /\ IsToday(parcel[p].pickupCompletedAt)
                     /\ parcel[p].deliveryDriverId = NoDriver}

\* The parcels whose status a step changes.
Transitioned == {p \in Parcels : parcel'[p].status # parcel[p].status}

AssignEligible ==
    {p \in Parcels : /\ ~parcel[p].isDeleted
                     /\ parcel[p].status = "DELIVERY_PENDING"
                     /\ IsToday(parcel[p].pickupCompletedAt)
                     /\ parcel[p].deliveryDriverId = NoDriver}

\* After the step parcel p has the delivery table's entry for the district its
\* address resolved to in this call (geocoder first, textual suffix next), and
\* no driver when no district was resolved or the table has no entry for it.
HasDriverOfResolvedDistrict(p) ==
    \E apiUp \in BOOLEAN :
        LET district == ExtractDistrict(parcel[p].recipientAddr, apiUp)
        IN  /\ district = "" <=> p \in resp'.warned
            /\ parcel'[p].deliveryDriverId = DeliveryDriverOf(district)

C18_HubArrivedOnlyWhenDone ==
    [][Served("hub_arrived") /\ resp'.driver \in PICKUP_DRIVERS
       => LET d == resp'.driver
          IN  /\ resp'.code = 200 \/ driver_hub_status'[d] # driver_hub_status[d]
                 => PendingPickups(d) = <<>>
              /\ PendingPickups(d) # <<>>
                 => /\ resp'.code = 400
                    /\ resp'.remaining = Len(PendingPickups(d))
                    /\ driver_hub_status'[d] = driver_hub_status[d]
      ]_vars

\* C19: when a pickup driver has no pending pickup and the hub flag is not
\* set, /pickup/next from 07:00 and before 12:00 answers waiting_for_orders
\* without calling the routing engine, and from 12:00 on answers
\* return_to_hub (the last stop) with a route request to the hub.
C19_IdleBeforeAndAfterCutoff ==
    [][/\ Served("pickup_next") /\ resp'.driver \in PICKUP_DRIVERS
       /\ PendingPickups(resp'.driver) = <<>>
       /\ ~driver_hub_status[resp'.driver]
       /\ now.hour >= PICKUP_START_TIME
       => /\ resp'.code = 200 /\ resp'.remaining = 0
          /\ now.hour < PICKUP_CUTOFF_TIME
             => resp'.status = "waiting_for_orders" /\ resp'.calls = {}
          /\ now.hour >= PICKUP_CUTOFF_TIME
             => resp'.status = "return_to_hub" /\ resp'.calls = {"route"}
      ]_vars

\* C19 witness: exactly at the cutoff a driver who has completed a pickup
\* today and has nothing pending has been sent back to the hub.
C19_Witness ==
    /\ resp.op = "pickup_next" /\ resp.status = "return_to_hub"
    /\ resp.calls = {"route"}
    /\ now.hour = PICKUP_CUTOFF_TIME
    /\ resp.driver \in PICKUP_DRIVERS
    /\ PendingPickups(resp.driver) = <<>>
    /\ \E p \in Parcels : /\ parcel[p].pickupDriverId = resp.driver
                          /\ parcel[p].status = "PICKUP_COMPLETED"
                          /\ IsToday(parcel[p].pickupCompletedAt)

\* C20: a /pickup/next or /delivery/next request that finds exactly one
\* pending stop answers with that stop, having called the routing engine for
\* the route only: neither the matrix endpoint nor the TSP adapter.
C20_SingleStopRoutesDirectly ==
    [][/\ Served("pickup_next") /\ resp'.remaining = 1
          => /\ resp'.code = 200
             /\ resp'.next = PendingPickups(resp'.driver)[1]
             /\ resp'.calls = {"route"}
       /\ Served("delivery_next") /\ resp'.remaining = 1
          => /\ resp'.code = 200
             /\ resp'.next = PendingDeliveries(resp'.driver)[1]
             /\ resp'.calls = {"route"}
      ]_vars

\* C21: /pickup/complete for a parcel that is not PICKUP_PENDING, or that is
\* scheduled for a later day, is refused and leaves the parcel unchanged.
C21_CompleteOnlyDuePending ==
    [][Served("pickup_complete") /\ resp'.parcel \in Parcels
       => LET row == parcel[resp'.parcel]
          IN  \/ row.status # "PICKUP_PENDING"
              \/ /\ row.pickupScheduledDate # <<>>
                 /\ row.pickupScheduledDate[1] > Today
              => resp'.code # 200 /\ parcel' = parcel
      ]_vars

\* C22: a webhook for an existing parcel without a pickup driver, for which
\* no district could be extracted in that call, is answered 400 and leaves
\* the store unchanged, before and after the cutoff.
C22_UnresolvedDistrictIs400 ==
    [][/\ Served("webhook") /\ resp'.parcel \in resp'.warned
       /\ ParcelFound(resp'.parcel)
       /\ parcel[resp'.parcel].pickupDriverId = NoDriver
       => resp'.code = 400 /\ parcel' = parcel
      ]_vars

\* C23: a request to a decorated driver endpoint whose header is missing or
\* malformed, or whose token is empty, invalid, expired or without a user
\* id, is answered 401 by the decorator: no parcel row and no hub flag
\* changes, and no other service is called.
C23_BadTokenIs401 ==
    [][auth_header' # VerifiedHeader
       => /\ resp'.code = 401
          /\ resp'.calls = {}
          /\ UNCHANGED <<parcel, driver_hub_status, delivery_hub_status>>
      ]_vars

\* C23 witness: driver 5's /pickup/complete with an expired token has been
\* refused while the parcel it would have completed is still pending.
C23_Witness ==
    /\ auth_header = [present |-> TRUE, parts |-> <<"Bearer", "expired">>]
    /\ resp.op = "pickup_complete" /\ resp.code = 401
    /\ PendingPickups(5) # <<>>

\* C24: a refresh cycle never empties or shrinks the speed table that
\* requests observe: a link whose call failed keeps its earlier entry, so the
\* table after a cycle has at least the entries it had before.
C24_FailuresLeaveTableStale ==
    [][Len(traffic_data'.speeds) >= Len(traffic_data.speeds)]_vars

----------------------------------------------------------------------------
(* Properties of the proxy's stateless endpoints *)

Done(op) == last_call.op = op /\ last_call.pc = "done"

\* the pairs (i, j), 1-based, for which a 200 answer of the engine holds a
\* time and a distance
RoutedPairs(n, answer) ==
    IF answer.status # 200 \/ "sources_to_targets" \notin DOMAIN answer.body THEN {}
    ELSE {ij \in (1..n) \X (1..n) :
             LET row == answer.body.sources_to_targets[ij[1]]
             IN  /\ "cells" \in DOMAIN row
                 /\ "time" \in DOMAIN row.cells[ij[2]]
                 /\ "distance" \in DOMAIN row.cells[ij[2]]}

\* C25: POST /matrix answers with the engine's status and body unchanged
\* whenever the engine answers, whatever use_live_traffic and the speed table
\* are; and so get_time_distance_matrix obtains a matrix whenever the engine
\* answers 200 with at least one routed pair before the retries run out.
C25_MatrixIsPassThrough ==
    /\ Done("matrix") /\ last_call.engine.status # 0
          => last_call.response = last_call.engine
    /\ Done("get_time_distance_matrix") /\ last_call.failures < max_retries
         /\ RoutedPairs(last_call.n, last_call.engine) # {}
          => last_call.result.ok

\* the matrix endpoint's answer to the client's request
EndpointAnswer == ProxyMatrixEndpoint(TRUE, traffic_data, last_call.engine)

MatchedSpeed(i, j) ==
    FindRealSpeed(last_call.trip.legs[i].maneuvers[j].arterial, traffic_data.speeds)

\* leg summaries and the trip summary of the rewritten answer add up, and hold
\* the engine's summary times under original_time
SummariesAddUp ==
    /\ \A i \in 1..Len(last_call.trip.legs) :
          /\ last_call.response.legs[i].summary.time
                = SumTimes(last_call.response.legs[i].maneuvers)
          /\ last_call.response.legs[i].summary.original_time
                = last_call.trip.legs[i].summary.time
    /\ last_call.response.summary.time
          = SumSeq([i \in 1..Len(last_call.trip.legs) |->
                       last_call.response.legs[i].summary.time])
    /\ last_call.response.summary.original_time = last_call.trip.summary.time

\* maneuver j of leg i holds the time its length and matched speed give, and
\* the engine's time is still in the answer
Rewritten(i, j) ==
    LET m   == last_call.trip.legs[i].maneuvers[j]
        out == last_call.response.legs[i].maneuvers[j]
    IN  /\ out.time * MatchedSpeed(i, j).sum = m.length * 3600 * MatchedSpeed(i, j).cnt
        /\ \/ out.time = m.time
           \/ "original_time" \in DOMAIN out /\ out.original_time = m.time

C28_SearchNeverFails ==
    Done("search")
    => /\ last_call.response.status = 200
       /\ Len(last_call.response.features) = 1
       /\ last_call.response.features[1].confidence =
             IF last_call.address = "hit" THEN 95
             ELSE IF last_call.address \in {"empty", "non200"} /\ last_call.keyword = "hit"
             THEN 85
             ELSE IF NamesDistrict(last_call.text) THEN 50
             ELSE 10

----------------------------------------------------------------------------
(* Properties of the start-of-day gates *)

\* the answer tells the driver to wait and names no stop and no service
WaitingOnly ==
    /\ resp'.code = 200 /\ resp'.status = "waiting"
    /\ resp'.next = NoParcel /\ resp'.remaining = 0 /\ resp'.calls = {}
    /\ driver_hub_status' = driver_hub_status
    /\ delivery_hub_status' = delivery_hub_status

\* C29: before 07:00 /pickup/next answers waiting to every pickup driver, and
\* before 15:00 /delivery/next answers waiting, whatever is pending and
\* whatever the hub flags are, naming no stop, calling no service and leaving
\* the hub flags alone; from 07:00 (15:00) on neither answers waiting.
C29_WaitingExactlyBeforeStart ==
    [][/\ Served("pickup_next") /\ resp'.driver \in PICKUP_DRIVERS
          => IF now.hour < PICKUP_START_TIME THEN WaitingOnly
             ELSE resp'.status # "waiting"
       /\ Served("delivery_next")
          => IF now.hour < DELIVERY_START_TIME THEN WaitingOnly
             ELSE resp'.status # "waiting"]_vars

\* C29 witness: a pickup driver with a stop pending was told to wait.
C29_Witness ==
    /\ resp.op = "pickup_next" /\ resp.status = "waiting"
    /\ resp.driver \in PICKUP_DRIVERS
    /\ PendingPickups(resp.driver) # <<>>

----------------------------------------------------------------------------
(* Properties of soft-deleted parcels *)

SoftDeleted == {p \in Parcels : parcel[p].isDeleted}

\* C30: a soft-deleted parcel is left out of every operation: no handler
\* changes its row, no /next names it as the stop, no count of pending or
\* remaining parcels includes it, and a completion asked for it ends at the
\* ownership lookup (403), for pickup and for delivery.
C30_SoftDeletedExcluded ==
    [][/\ \A p \in SoftDeleted : parcel'[p] = parcel[p]
       /\ resp'.next \notin SoftDeleted
       /\ resp'.op \in {"pickup_next", "delivery_next", "hub_arrived"}
          => resp'.remaining <= Cardinality({p \in Parcels \ SoftDeleted :
                                                \/ parcel[p].pickupDriverId = resp'.driver
                                                \/ parcel[p].deliveryDriverId = resp'.driver})
       /\ resp'.op = "all_completed"
          => resp'.remaining <= Cardinality({p \in Parcels \ SoftDeleted :
                                                parcel[p].status = "PICKUP_PENDING"})
       /\ resp'.op \in {"pickup_complete", "delivery_complete"}
             /\ resp'.parcel \in SoftDeleted
          => resp'.code = 403]_vars

----------------------------------------------------------------------------
(* Properties of the driver identities and of the delivery hub flag *)

\* the answer rejects the caller and tells it nothing
Rejected ==
    /\ resp'.code \in {400, 403}
    /\ resp'.next = NoParcel /\ resp'.calls = {}
    /\ driver_hub_status' = driver_hub_status
    /\ delivery_hub_status' = delivery_hub_status

\* C31: a driver whose id is outside 1..5 is rejected with 400/403 by
\* /pickup/next, /pickup/complete and /pickup/hub-arrived, and a driver whose
\* id is outside 6..10 by /delivery/next and /delivery/complete: no stop, no
\* hub route, no waiting or at_hub status, no change of a hub flag.
C31_OutOfRangeDriverRejected ==
    [][/\ Served("pickup_next") \/ Served("pickup_complete") \/ Served("hub_arrived")
          => (resp'.driver \notin PICKUP_DRIVERS => Rejected)
       /\ Served("delivery_next") \/ Served("delivery_complete")
          => (resp'.driver \notin DELIVERY_DRIVERS => Rejected)]_vars

\* C32: a delivery driver with no pending delivery who confirms hub arrival
\* is answered 200 and has the hub flag set, and /delivery/next for a driver
\* with the flag set and nothing pending answers at_hub.
C32_DeliveryHubArrival ==
    [][/\ Served("delivery_hub_arrived") /\ resp'.driver \in DELIVERY_DRIVERS
             /\ PendingDeliveries(resp'.driver) = <<>>
          => resp'.code = 200 /\ delivery_hub_status'[resp'.driver]
       /\ Served("delivery_next") /\ delivery_hub_status[resp'.driver]
             /\ resp'.status # "waiting" /\ PendingDeliveries(resp'.driver) = <<>>
          => resp'.status = "at_hub"]_vars

----------------------------------------------------------------------------
(* Properties of the choice of the next stop *)

\* the tour is a permutation of the nodes 0..n
IsPermutation(tour, n) ==
    Len(tour) = n + 1 /\ {tour[i] : i \in 1..Len(tour)} = 0..n

\* the node that follows node 0 in the cyclic order of a permutation
FollowsZero(tour) ==
    LET i == CHOOSE k \in 1..Len(tour) : tour[k] = 0
    IN  tour[(i % Len(tour)) + 1]

\* C33: for every permutation of [current, stop1..stopN] the adapter may
\* return, /pickup/next and /delivery/next both answer with the stop that
\* follows node 0 in cyclic tour order, hence with the same stop.
C33_BothFollowNodeZero ==
    last_call.op \in {"pickup_choice", "delivery_choice"} /\ last_call.pc = "done"
      /\ IsPermutation(last_call.tour, last_call.n)
    => last_call.stop = FollowsZero(last_call.tour)

----------------------------------------------------------------------------
(* Properties of requests served at the same time *)

\* two requests to complete the same parcel, sent by the driver it is assigned to
SameDelivery(r1, r2) ==
    /\ r1 # r2
    /\ inflight[r1].op = "delivery_complete" /\ inflight[r2].op = "delivery_complete"
    /\ inflight[r1].parcel = inflight[r2].parcel
    /\ inflight[r1].driver = inflight[r2].driver
    /\ parcel[inflight[r1].parcel].deliveryDriverId = inflight[r1].driver

\* the fields complete_delivery_in_db writes agree with each other
WhollyUpdated(row) ==
    IF row.status = "DELIVERY_COMPLETED"
    THEN row.deliveryCompletedAt # <<>> /\ ~row.isNextDeliveryTarget
    ELSE row.deliveryCompletedAt = <<>>

RECURSIVE ConvertedBy(_)
\* the sum of the converted counts of the requests of R
ConvertedBy(R) ==
    IF R = {} THEN 0
    ELSE LET r == CHOOSE x \in R : TRUE
         IN  inflight[r].converted + ConvertedBy(R \ {r})

ConvertedTotal == ConvertedBy(RequestIds)

\* the number of rows that are past PICKUP_COMPLETED
ImportedRows ==
    Cardinality({p \in Parcels : parcel[p].status \in {"DELIVERY_PENDING",
                                                       "DELIVERY_COMPLETED"}})

\* C40: under every interleaving of /delivery/import calls (and of the
\* completions running beside them), every step adds to the calls' converted
\* counts exactly the number of rows it takes from PICKUP_COMPLETED to
\* DELIVERY_PENDING, and no row returns to PICKUP_COMPLETED: each row is
\* converted by at most one call and the counts sum to the rows converted.
C40_ImportCountsEachRowOnce ==
    [][/\ ConvertedTotal' - ConvertedTotal = ImportedRows' - ImportedRows
       /\ \A p \in Parcels : parcel[p].status # "PICKUP_COMPLETED"
                                => parcel'[p].status # "PICKUP_COMPLETED"]_vars

\* C40 witness: an import call still holds in its selection a row that
\* another import call has converted (and counted) in the meantime.
C40_Witness ==
    \E r1, r2 \in RequestIds :
        /\ r1 # r2
        /\ inflight[r1].op = "delivery_import" /\ inflight[r1].pc = "looping"
        /\ inflight[r2].op = "delivery_import" /\ inflight[r2].converted >= 1
        /\ \E p \in inflight[r1].todo : parcel[p].status = "DELIVERY_PENDING"

----------------------------------------------------------------------------
(* Properties of the answers of the two /next endpoints *)

\* the rows the store holds as pending pickups of driver d, due today or earlier
OwnDuePickups(d) == {p \in DuePending : parcel[p].pickupDriverId = d}

\* the rows the store holds as pending deliveries of driver d
OwnDeliveries(d) ==
    {p \in Parcels : /\ parcel[p].deliveryDriverId = d
                     /\ parcel[p].status = "DELIVERY_PENDING"
                     /\ ~parcel[p].isDeleted}

OnlyClearsCaller(before, after, d) ==
    \A e \in DOMAIN before :
        after[e] # before[e] => e = d /\ before[e] /\ ~after[e]

\* C36: /pickup/next and /delivery/next write no parcel row on any path;
\* each leaves the other service's hub table alone and changes its own only
\* by clearing the caller's flag, and only when the caller has pending stops.
C36_NextWritesNoRow ==
    [][/\ Served("pickup_next")
          => /\ parcel' = parcel
             /\ delivery_hub_status' = delivery_hub_status
             /\ OnlyClearsCaller(driver_hub_status, driver_hub_status', resp'.driver)
             /\ driver_hub_status' # driver_hub_status
                   => OwnDuePickups(resp'.driver) # {}
       /\ Served("delivery_next")
          => /\ parcel' = parcel
             /\ driver_hub_status' = driver_hub_status
             /\ OnlyClearsCaller(delivery_hub_status, delivery_hub_status', resp'.driver)
             /\ delivery_hub_status' # delivery_hub_status
                   => OwnDeliveries(resp'.driver) # {}]_vars

\* C36 witness: /pickup/next has answered a driver with a stop, that
\* driver's hub flag is clear, and another driver's hub flag is still set.
C36_Witness ==
    /\ resp.op = "pickup_next" /\ resp.status = "success"
    /\ ~driver_hub_status[resp.driver]
    /\ \E e \in PICKUP_DRIVERS \cap Callers : e # resp.driver /\ driver_hub_status[e]

----------------------------------------------------------------------------
(* Properties of the driver lookup *)

\* C37: a driver endpoint called with a verified token acts as no driver
\* other than the token's user; when get_current_driver falls back to a
\* default or unknown record (no current_user_id on the request, no User
\* row, no DriverInfo row, store error) the request answers 500, offers no
\* stop, calls no service and leaves the parcels and both hub tables as
\* they are.
C37_FallbackRecordNeverActs ==
    [][last_call'.op = "get_current_driver"
       => /\ resp'.driver \in {NoDriver, last_call'.user_id}
          /\ last_call'.outcome # "found"
             => /\ resp'.code = 500 /\ resp'.driver = NoDriver
                /\ resp'.next = NoParcel /\ resp'.calls = {}
                /\ parcel' = parcel
                /\ driver_hub_status' = driver_hub_status
                /\ delivery_hub_status' = delivery_hub_status]_vars

\* C37 witness: the token of user 5, who has a pending pickup, met a lookup
\* that fell back to the default driver 1, and the request ended in 500.
C37_Witness ==
    /\ last_call.op = "get_current_driver" /\ last_call.outcome = "no_attribute"
    /\ last_call.user_id = 5 /\ last_call.driver_info.id = 1
    /\ resp.code = 500
    /\ \E p \in Parcels : parcel[p].pickupDriverId = 5 /\ parcel[p].status = "PICKUP_PENDING"

----------------------------------------------------------------------------
(* Properties of the retry loop *)

\* the step is an attempt that met the outcome o
Attempted(o) ==
    /\ last_call.pc = "attempting"
    /\ last_call'.log = Append(last_call.log, o)

\* C38: a call of get_turn_by_turn_route or get_time_distance_matrix makes
\* at most max_retries attempts; a timeout or an HTTP/connection error is
\* retried after a pause of retry_delay seconds, and ends the call with None
\* when it was the last attempt; a non-JSON body or an unexpected error ends
\* the call with None at once.
C38_RetriesOnlyTransportErrors ==
    [][/\ Len(last_call'.log) <= max_retries
       /\ last_call'.slept = retry_delay * (Len(last_call'.log) - 1)
             \/ last_call'.pc = "attempting"
       /\ Attempted("timeout") \/ Attempted("http_error")
             => IF Len(last_call'.log) < max_retries
                THEN last_call'.pc = "sleeping"
                ELSE last_call'.pc = "done" /\ last_call'.result = "None"
       /\ Attempted("non_json") \/ Attempted("unexpected")
             => last_call'.pc = "done" /\ last_call'.result = "None"]_vars

----------------------------------------------------------------------------
(* Properties of the background worker *)

\* the first cycle starts at once, every cycle ends, and the thread lives on
WorkerCycles ==
    /\ (updater.pc = "start") ~> (updater.pc = "fetch" /\ updater.cycle = 1)
    /\ (updater.pc = "fetch") ~> (updater.pc = "sleep")
    /\ [](updater.pc \in {"start", "fetch", "sleep"})

====
